---- MODULE Spec2Model ----
(***************************************************************************)
(* Model of the NYC congestion-pricing audit pipeline                       *)
(* (src/pipeline/pipeline.py) and of the runner that sequences it           *)
(* (src/app.py).                                                            *)
(*                                                                          *)
(* Units.  Timestamps are seconds, date_diff('minute', ..) is computed as   *)
(* DuckDB computes it (difference of the minute numbers).  trip_distance is *)
(* kept in tenths of a mile and fare in dollars, so that every comparison   *)
(* of the audit query is exact integer arithmetic.  A nullable SQL value is *)
(* <<>> (NULL) or <<v>>; a SQL condition evaluates to "true", "false" or    *)
(* "null".                                                                  *)
(***************************************************************************)
EXTENDS Integers, Sequences, FiniteSets, TLC

\* ------------------------------------------------------------------------
\* Bounds of the model
\* ------------------------------------------------------------------------
MaxRuns == 2        \* invocations of the runner that are explored
MaxFaults == 2      \* environment faults (network, disk, engine) injected in total
MaxRows == 1        \* rows of the unified view in the audit specification

\* ------------------------------------------------------------------------
\* Configuration constants of pipeline.py
\* ------------------------------------------------------------------------
TAXI_TYPES == <<"yellow", "green">>
CONGESTION_ZONE_IDS ==
    {4, 12, 13, 24, 41, 42, 43, 45, 48, 50, 68, 74, 75, 87, 88, 90, 100, 103,
     104, 105, 107, 113, 114, 116, 120, 125, 127, 128, 137, 140, 142, 143, 144,
     148, 151, 152, 153, 158, 161, 162, 163, 164, 166, 170, 186, 194, 202, 209,
     211, 212, 213, 214, 216, 217, 224, 229, 230, 231, 232, 233, 234, 235, 236,
     237, 238, 239, 240, 241, 242, 243, 244, 245, 246, 249, 250}
START_DATE == <<2025, 1, 5>>      \* start_date = '2025-01-05'
LEAKAGE_MIN_TRIPS == 100         \* HAVING COUNT(*) > 100
LEAKAGE_LIMIT == 20              \* LIMIT 20
GHOST_SPEED_LIMIT == 65
GHOST_I_TELEPORTER_TIME == 1
GHOST_I_TELEPORTER_FARE == 20
GHOST_I_STATIONARY_DIST == 0
SPEED_FLOOR_TENTHS == 1          \* the 0.1 of GREATEST(duration, 0.1), in tenths of a minute
VENDOR_LIMIT == 5                \* LIMIT 5 of the vendor query
ELASTICITY_MIN_ROWS == 10        \* len(df_merge) > 10

\* ------------------------------------------------------------------------
\* SQL values and three-valued logic
\* ------------------------------------------------------------------------
NULL == <<>>
IsNull(x) == x = <<>>
Val(x) == x[1]

TV(b) == IF b THEN "true" ELSE "false"

SqlAnd(p, q) ==
    IF p = "false" \/ q = "false" THEN "false"
    ELSE IF p = "true" /\ q = "true" THEN "true"
    ELSE "null"

SqlOr(p, q) ==
    IF p = "true" \/ q = "true" THEN "true"
    ELSE IF p = "false" /\ q = "false" THEN "false"
    ELSE "null"

\* date_diff('minute', a, b): number of minute boundaries between a and b
date_diff_minute(a, b) == (b \div 60) - (a \div 60)

duration_min(row) == date_diff_minute(row.pickup_time, row.dropoff_time)

\* GREATEST(duration, 0.1), in tenths of a minute
GreatestTenths(d) == IF 10 * d > SPEED_FLOOR_TENTHS THEN 10 * d ELSE SPEED_FLOOR_TENTHS

\* ImpossiblePhysicsCond that takes a duration of at most 0 for an infinite speed
ImpossiblePhysicsCond_ZeroDuration(row) ==
    IF IsNull(row.trip_distance) THEN "null"
    ELSE TV(\/ duration_min(row) <= 0
            \/ 60 * Val(row.trip_distance) > GHOST_SPEED_LIMIT * GreatestTenths(duration_min(row)))

\* (trip_distance / (GREATEST(duration, 0.1) / 60.0)) > GHOST_SPEED_LIMIT
\* with trip_distance = D/10 and GREATEST = G/10 the quotient is 60*D/G, G > 0
ImpossiblePhysicsCond(row) ==
    IF IsNull(row.trip_distance) THEN "null"
    ELSE TV(60 * Val(row.trip_distance) > GHOST_SPEED_LIMIT * GreatestTenths(duration_min(row)))

\* duration < GHOST_I_TELEPORTER_TIME AND fare > GHOST_I_TELEPORTER_FARE
TeleporterCond(row) ==
    SqlAnd(TV(duration_min(row) < GHOST_I_TELEPORTER_TIME),
           IF IsNull(row.fare) THEN "null" ELSE TV(Val(row.fare) > GHOST_I_TELEPORTER_FARE))

\* StationaryCond with the fare threshold of the Teleporter rule
StationaryCond_TeleporterFare(row) ==
    SqlAnd(IF IsNull(row.trip_distance) THEN "null"
           ELSE TV(Val(row.trip_distance) = GHOST_I_STATIONARY_DIST),
           IF IsNull(row.fare) THEN "null" ELSE TV(Val(row.fare) > GHOST_I_TELEPORTER_FARE))

\* trip_distance = GHOST_I_STATIONARY_DIST AND fare > 0
StationaryCond(row) ==
    SqlAnd(IF IsNull(row.trip_distance) THEN "null"
           ELSE TV(Val(row.trip_distance) = GHOST_I_STATIONARY_DIST),
           IF IsNull(row.fare) THEN "null" ELSE TV(Val(row.fare) > 0))

\* fraud_flag with the Stationary Ride branch tested before Teleporter
fraud_flag_StationaryFirst(row) ==
    IF ImpossiblePhysicsCond(row) = "true" THEN "Impossible Physics"
    ELSE IF StationaryCond(row) = "true" THEN "Stationary Ride"
    ELSE IF TeleporterCond(row) = "true" THEN "Teleporter"
    ELSE "OK"

\* fraud_flag with the Teleporter branch tested before Impossible Physics
fraud_flag_TeleporterFirst(row) ==
    IF TeleporterCond(row) = "true" THEN "Teleporter"
    ELSE IF ImpossiblePhysicsCond(row) = "true" THEN "Impossible Physics"
    ELSE IF StationaryCond(row) = "true" THEN "Stationary Ride"
    ELSE "OK"

\* CASE ... END as fraud_flag: the first WHEN whose condition is true
fraud_flag(row) ==
    IF ImpossiblePhysicsCond(row) = "true" THEN "Impossible Physics"
    ELSE IF TeleporterCond(row) = "true" THEN "Teleporter"
    ELSE IF StationaryCond(row) = "true" THEN "Stationary Ride"
    ELSE "OK"

\* speed_mph computed with the 0.1-minute floor of the filter
speed_mph_Floored(row) ==
    IF IsNull(row.trip_distance) THEN NULL
    ELSE <<60 * Val(row.trip_distance), GreatestTenths(duration_min(row))>>

\* CASE WHEN duration <= 0 THEN 0 ELSE trip_distance / (duration / 60.0) END,
\* as the fraction <<numerator, denominator>> in miles per hour
speed_mph(row) ==
    IF duration_min(row) <= 0 THEN <<0, 1>>
    ELSE IF IsNull(row.trip_distance) THEN NULL
    ELSE <<6 * Val(row.trip_distance), duration_min(row)>>

\* AuditWhere without its third disjunct
AuditWhere_NoStationary(row) ==
    SqlOr(ImpossiblePhysicsCond(row), TeleporterCond(row)) = "true"

\* WHERE clause of the audit query: a row is kept when the condition is true
AuditWhere(row) ==
    SqlOr(ImpossiblePhysicsCond(row), SqlOr(TeleporterCond(row), StationaryCond(row))) = "true"

\* SELECT *, duration_min, speed_mph, fraud_flag
AuditSelect(row) ==
    [VendorID |-> row.VendorID,
     pickup_time |-> row.pickup_time,
     dropoff_time |-> row.dropoff_time,
     trip_distance |-> row.trip_distance,
     fare |-> row.fare,
     duration_min |-> duration_min(row),
     speed_mph |-> speed_mph(row),
     fraud_flag |-> fraud_flag(row)]

RECURSIVE AuditQuery(_)
\* COPY (SELECT ... FROM all_trips_2025 WHERE ...) TO ghost_trip_audit.csv
AuditQuery(rows) ==
    IF rows = <<>> THEN <<>>
    ELSE IF AuditWhere(Head(rows))
         THEN <<AuditSelect(Head(rows))>> \o AuditQuery(Tail(rows))
         ELSE AuditQuery(Tail(rows))

\* SELECT COUNT(*) FROM ghost_trip_audit.csv
CountQuery(csv) == Len(csv)

\* GROUP BY VendorID: the <<VendorID, ghost_count>> groups of the flagged table
VendorGroups(csv) ==
    {<<v, Cardinality({i \in 1..Len(csv) : csv[i].VendorID = v})>> :
        v \in {csv[i].VendorID : i \in 1..Len(csv)}}

Min(a, b) == IF a < b THEN a ELSE b

\* ORDER BY ghost_count DESC LIMIT 5: every result the engine may return
\* (the order among equal counts is not determined by the query)
\* VendorQuery ordered by VendorID instead of ghost_count
VendorQuery_ByVendor(csv) ==
    LET groups == VendorGroups(csv)
        n == Min(VENDOR_LIMIT, Cardinality(groups))
    IN {s \in [1..n -> groups] :
          /\ \A i, j \in 1..n : i < j => s[i] # s[j] /\ s[i][1] < s[j][1]
          /\ \A g \in groups : (\A i \in 1..n : s[i] # g) => \A i \in 1..n : s[i][1] < g[1]}

VendorQuery(csv) ==
    LET groups == VendorGroups(csv)
        n == Min(VENDOR_LIMIT, Cardinality(groups))
    IN {s \in [1..n -> groups] :
          /\ \A i, j \in 1..n : i < j => s[i] # s[j] /\ s[i][2] >= s[j][2]
          /\ \A g \in groups : (\A i \in 1..n : s[i] # g) => \A i \in 1..n : s[i][2] >= g[2]}

\* ------------------------------------------------------------------------
\* Files on local storage
\* ------------------------------------------------------------------------
\* A data file is <<year, month, taxi>>.  Of range(1, 12) for 2025 and
\* range(1, 13) for 2024 the model keeps one month per year and taxi class.
Months2025 == <<1>>
Months2024 == <<12>>
Months2023 == <<12>>

ZoneLookup == <<0, 0, "taxi_zone_lookup">>

DownloadsOf(year, months) ==
    [i \in 1..(2 * Len(months)) |->
        <<year, months[(i + 1) \div 2], TAXI_TYPES[((i - 1) % 2) + 1]>>]

\* the zone lookup, then required_downloads in the order the loop visits them
required_downloads ==
    <<ZoneLookup>> \o DownloadsOf(2025, Months2025) \o DownloadsOf(2024, Months2024)
                   \o DownloadsOf(2023, Months2023)

target_file(taxi) == <<2025, 12, taxi>>
src_2023(taxi) == <<2023, 12, taxi>>
src_2024(taxi) == <<2024, 12, taxi>>

TaxiSet == {TAXI_TYPES[i] : i \in 1..Len(TAXI_TYPES)}

FileKeys ==
    {required_downloads[i] : i \in 1..Len(required_downloads)}
        \cup {target_file(t) : t \in TaxiSet}

FileStates == {"absent", "partial", "complete"}

\* Path.exists()
Exists(st) == st # "absent"

\* dest_path.exists() and dest_path.stat().st_size > 1024
AlreadyDownloaded(st) == st = "complete"

\* download_file whose except branch only prints
DownloadFile_NoUnlink(st, outcome) ==
    IF outcome = "ok" THEN "complete"
    ELSE IF outcome = "mid_transfer" THEN "partial"
    ELSE st

\* download_file once the transfer is attempted: "ok", "http_error" (raised
\* before the file is opened) or "mid_transfer" (raised while writing)
DownloadFile(st, outcome) ==
    LET written == IF outcome = "mid_transfer" THEN "partial" ELSE st
    IN IF outcome = "ok" THEN "complete"
       ELSE IF Exists(written) THEN "absent"     \* dest_path.unlink()
       ELSE written

\* not src_2023.exists() or not src_2024.exists()
SourcesMissing(fs, taxi) == ~Exists(fs[src_2023(taxi)]) \/ ~Exists(fs[src_2024(taxi)])

\* ImputeDecision without the existence check of the target
ImputeDecision_NoExistsCheck(fs, taxi) ==
    IF SourcesMissing(fs, taxi) THEN "missing_source" ELSE "copy"

\* ImputeDecision skipping only when both sources are missing
ImputeDecision_BothMissing(fs, taxi) ==
    IF Exists(fs[target_file(taxi)]) THEN "already_exists"
    ELSE IF ~Exists(fs[src_2023(taxi)]) /\ ~Exists(fs[src_2024(taxi)]) THEN "missing_source"
    ELSE "copy"

\* the branch an iteration of impute_december_data takes for a taxi class
ImputeDecision(fs, taxi) ==
    IF Exists(fs[target_file(taxi)]) THEN "already_exists"
    ELSE IF SourcesMissing(fs, taxi) THEN "missing_source"
    ELSE "copy"

\* A timestamp is <<year, month, day>>; a trip row of a data file has the
\* columns pickup (tpep/lpep_pickup_datetime), dropoff and DOLocationID.
IsLeapYear(y) == y % 4 = 0 /\ (y % 100 # 0 \/ y % 400 = 0)

\* ts + INTERVAL n YEAR: the day is clamped to the last day of the month
AddYears(ts, n) ==
    <<ts[1] + n, ts[2],
      IF ts[2] = 2 /\ ts[3] = 29 /\ ~IsLeapYear(ts[1] + n) THEN 28 ELSE ts[3]>>

\* SELECT * REPLACE (pickup + INTERVAL n YEAR, dropoff + INTERVAL n YEAR)
ShiftYears(rows, n) ==
    [i \in 1..Len(rows) |->
        [rows[i] EXCEPT !.pickup = AddYears(@, n), !.dropoff = AddYears(@, n)]]

RECURSIVE Pick(_, _, _)
Pick(rows, keep, i) ==
    IF i > Len(rows) THEN <<>>
    ELSE (IF i \in keep THEN <<rows[i]>> ELSE <<>>) \o Pick(rows, keep, i + 1)

\* WHERE random() < p: any subset of the rows may be drawn
Sample(rows) == {Pick(rows, keep, 1) : keep \in SUBSET (1..Len(rows))}

\* the 2023 sample shifted by 2 years for both samples
ImputeQuery_SameShift(s23, s24) == ShiftYears(s23, 2) \o ShiftYears(s24, 2)

\* the sample of src_2023 shifted by 2 years UNION ALL the sample of src_2024
\* shifted by 1 year
ImputeQuery(s23, s24) == ShiftYears(s23, 2) \o ShiftYears(s24, 1)

\* the rows the trip-data site publishes in a file; the pipeline
\* specification tracks the files it downloads without their rows, the
\* specifications of the imputation and of the Q1 jobs draw the rows
PublishedRows(key) == <<>>

\* what the COPY ... TO target leaves on disk
ImputeCopy(outcome) ==
    CASE outcome = "ok" -> "complete"
      [] outcome = "fail_before_write" -> "absent"
      [] outcome = "fail_mid_write" -> "partial"

\* read_parquet('<year>/<taxi>/*.parquet'): at least one file matches the
\* glob and every matching file is a complete Parquet file
GlobReadable(fs, year, taxi) ==
    LET matches == {k \in FileKeys : k[1] = year /\ k[3] = taxi /\ Exists(fs[k])}
    IN matches # {} /\ \A k \in matches : fs[k] = "complete"

\* ------------------------------------------------------------------------
\* Inputs of the model
\* ------------------------------------------------------------------------
Vendors == {1, 2}
PickupTimes == {90}
DropoffTimes == {30, 100, 120, 390}        \* durations -1, 0, 1 and 5 minutes
Distances == {NULL, <<0>>, <<1>>, <<2>>, <<11>>, <<55>>}
Fares == {NULL, <<0>>, <<10>>, <<20>>, <<21>>}

RowDomain ==
    [VendorID : Vendors, pickup_time : PickupTimes, dropoff_time : DropoffTimes,
     trip_distance : Distances, fare : Fares]


RowOK ==
    [VendorID |-> 1, pickup_time |-> 90, dropoff_time |-> 390,
     trip_distance |-> <<10>>, fare |-> <<10>>]
RowStationary ==
    [VendorID |-> 2, pickup_time |-> 90, dropoff_time |-> 390,
     trip_distance |-> <<0>>, fare |-> <<10>>]

\* the contents the 2025 files may present to the pipeline specification
PipelineViews == {<<RowOK>>, <<RowStationary, RowOK, RowStationary>>}

\* the views of the audit specification: up to MaxRows rows of RowDomain, and
\* the views of the pipeline specification
AuditViews == UNION {[1..n -> RowDomain] : n \in 0..MaxRows} \cup PipelineViews

\* the submitters of the leaderboard views and the number of stationary trips
\* (distance 0, fare 10 dollars, 5 minutes) each of them may have
LeaderboardVendors == 1..6
StationaryTrips == {0, 1, 3}

RECURSIVE StationaryRows(_, _)
StationaryRows(v, n) ==
    IF n = 0 THEN <<>>
    ELSE <<[RowStationary EXCEPT !.VendorID = v]>> \o StationaryRows(v, n - 1)

RECURSIVE LeaderboardRows(_, _)
LeaderboardRows(c, v) ==
    IF v \notin LeaderboardVendors THEN <<RowOK>>
    ELSE StationaryRows(v, c[v]) \o LeaderboardRows(c, v + 1)

\* the views of the leaderboard specification: the stationary trips of every
\* submitter, one after the other, and one regular trip
LeaderboardViews ==
    {LeaderboardRows(c, 1) : c \in [LeaderboardVendors -> StationaryTrips]}

\* rows of the December file of a year: a trip within the month, a trip that
\* ends on January 1 of the next year, and a trip of a leap day
SourceRows(year) ==
    {[pickup |-> <<year, 12, 1>>, dropoff |-> <<year, 12, 1>>, DOLocationID |-> 1],
     [pickup |-> <<year, 12, 31>>, dropoff |-> <<year + 1, 1, 1>>, DOLocationID |-> 4]}
    \cup (IF IsLeapYear(year)
          THEN {[pickup |-> <<year, 2, 29>>, dropoff |-> <<year, 2, 29>>, DOLocationID |-> 4]}
          ELSE {})

\* the contents of the yellow source files: up to two rows
YellowSources(year) ==
    {<<>>} \cup {<<r>> : r \in SourceRows(year)}
           \cup {<<r1, r2>> : r1 \in SourceRows(year), r2 \in SourceRows(year)}

\* the contents of the green source files: empty or one row
GreenSources(year) ==
    {<<>>, <<[pickup |-> <<year, 12, 31>>, dropoff |-> <<year, 12, 31>>, DOLocationID |-> 12]>>}

\* the data directory before impute_december_data: everything downloaded and
\* no target; or the yellow target is there already; or a green source is missing
ImputeFiles ==
    LET downloaded == [k \in FileKeys |->
                          IF k \in {target_file(t) : t \in TaxiSet} THEN "absent"
                          ELSE "complete"]
    IN {downloaded,
        [downloaded EXCEPT ![target_file("yellow")] = "complete"],
        [downloaded EXCEPT ![src_2023("green")] = "absent"]}

\* a drop-off on a date in a zone
DropOff(date, zone) == [pickup |-> date, dropoff |-> date, DOLocationID |-> zone]

\* contents of a yellow file of a year's directory: drop-offs on the first
\* and last day of Q1, on April 1, on January 1 of the next year (a trip
\* begun on December 31), inside (4, 12) and outside (1) the congestion zone
YellowQ1Contents(year) ==
    {<<>>,
     <<DropOff(<<year, 1, 1>>, 4)>>,
     <<DropOff(<<year, 3, 31>>, 4), DropOff(<<year, 4, 1>>, 4)>>,
     <<DropOff(<<year, 2, 10>>, 12), DropOff(<<year + 1, 1, 1>>, 12)>>,
     <<DropOff(<<year, 2, 10>>, 1), DropOff(<<year + 1, 1, 1>>, 4)>>,
     <<DropOff(<<year, 1, 5>>, 4), DropOff(<<year, 1, 6>>, 4), DropOff(<<year, 3, 1>>, 12)>>}

\* contents of a green file of a year's directory
GreenQ1Contents(year) ==
    {<<>>,
     <<DropOff(<<year, 1, 20>>, 4)>>,
     <<DropOff(<<year - 1, 12, 31>>, 4), DropOff(<<year, 2, 1>>, 1)>>}

\* the data directory before the Q1 counts: every file is complete, or the
\* green file of 2024 is missing
Q1Files ==
    {[k \in FileKeys |-> "complete"],
     [k \in FileKeys |-> IF k = <<2024, 12, "green">> THEN "absent" ELSE "complete"]}

\* the zone columns of a view whose rows are listed in v: the modelled rows
\* are picked up outside the zone on the start date, dropped off inside it,
\* and carry no surcharge
ZonesOf(v) ==
    IF v = <<>> THEN {}
    ELSE {[pickup_date |-> START_DATE, pickup_loc |-> 1, dropoff_loc |-> 4,
           congestion_surcharge |-> 0, trips |-> Len(v)]}

\* view rows picked up in zone z on the start date and dropped off inside the
\* congestion zone: c with a surcharge paid, w with a surcharge of 0, n with a
\* refunded (negative) surcharge
ZoneEntries(z, c, w, n) ==
    {t \in {[pickup_date |-> START_DATE, pickup_loc |-> z, dropoff_loc |-> 4,
             congestion_surcharge |-> 250, trips |-> c],
            [pickup_date |-> START_DATE, pickup_loc |-> z, dropoff_loc |-> 4,
             congestion_surcharge |-> 0, trips |-> w],
            [pickup_date |-> START_DATE, pickup_loc |-> z, dropoff_loc |-> 4,
             congestion_surcharge |-> -250, trips |-> n]} : t.trips > 0}

\* view rows the leakage query leaves out: picked up the day before the start
\* date, picked up inside the zone, dropped off outside the zone
OtherEntries ==
    {[pickup_date |-> <<2025, 1, 4>>, pickup_loc |-> 1, dropoff_loc |-> 4,
      congestion_surcharge |-> 250, trips |-> 200],
     [pickup_date |-> START_DATE, pickup_loc |-> 4, dropoff_loc |-> 4,
      congestion_surcharge |-> 250, trips |-> 150],
     [pickup_date |-> START_DATE, pickup_loc |-> 3, dropoff_loc |-> 1,
      congestion_surcharge |-> 0, trips |-> 150]}

PaidTrips == {0, 60, 101}
UnpaidTrips == {0, 41, 101}
RefundedTrips == {0, 1}

\* origin zones outside the congestion zone
LeakageOrigins ==
    <<1, 2, 3, 5, 6, 7, 8, 9, 10, 11, 14, 15, 16, 17, 18, 19, 20, 21, 22, 23, 25, 26>>
OriginCounts == {19, 20, 21, 22}

\* views with n origin zones of 101 qualifying trips each, i of them paid in
\* the i-th zone (the 21st zone pays as the 20th when tie holds), and zone 27
\* with exactly 100 qualifying trips, none paid
ManyOriginViews ==
    {UNION {ZoneEntries(LeakageOrigins[i],
                        IF tie /\ i = 21 THEN 20 ELSE i,
                        101 - (IF tie /\ i = 21 THEN 20 ELSE i), 0) : i \in 1..n}
        \cup ZoneEntries(27, 0, 100, 0) \cup OtherEntries :
        n \in OriginCounts, tie \in BOOLEAN}

\* the zone columns of the views of the leakage specification
LeakageViews ==
    {ZoneEntries(1, c1, w1, n1) \cup ZoneEntries(3, c3, w3, n3) \cup OtherEntries :
        c1 \in PaidTrips, w1 \in UnpaidTrips, n1 \in RefundedTrips,
        c3 \in PaidTrips, w3 \in UnpaidTrips, n3 \in RefundedTrips}
    \cup ManyOriginViews

\* len(df_merge) after the merge on date and dropna
JoinedCounts == {8, 10, 11}

\* ------------------------------------------------------------------------
\* State
\* ------------------------------------------------------------------------
VARIABLES
    files,          \* [FileKeys -> FileStates]: data_downloads
    gen,            \* [TaxiSet -> Nat]: times the imputed target was written
    content,        \* [FileKeys -> Seq(TripRows)]: rows of the data files
    weather_cache,  \* cache/weather_2025.csv exists
    audit_csv,      \* rows of output/ghost_trip_audit.csv
    summary,        \* output/impact_stats.json: <<>> or the record written
    out,            \* [Artifacts -> run that wrote the artifact, 0 if none]
    report,         \* output/audit_report.pdf: <<>> or what it was printed from
    env,            \* [pandas, scipy]: PANDAS_AVAILABLE, SCIPY_AVAILABLE
    run,            \* number of the current invocation of the runner
    orch,           \* position of app.py main
    pc,             \* position of pipeline.py main
    dl_idx,         \* index of the download loop
    taxi_idx,       \* index of the imputation loop
    exit_status,    \* exit status of the pipeline process
    imp_conn,       \* connection opened by impute_december_data, which never closes it
    conn,           \* connection opened by main
    view_exists,    \* all_trips_2025 is defined in conn
    view,           \* rows of all_trips_2025
    view_zones,     \* all_trips_2025 by pickup date, zones and surcharge
    leakage_csv,    \* rows of output/leakage_analysis.csv
    border_csv,     \* rows of output/border_effect.csv
    velocity_csv,   \* rows of output/velocity_<year>.csv, by year
    peer,           \* a second pipeline process on the same directories: its
                    \* variables while it is not the one taking a step
    loc,            \* locals: count, vendors, revenue, q1_2024, q1_2025, joined
    exc,            \* stage whose exception is propagating to main
    log,            \* console diagnostics of this run, <<kind, subject>>
    failed,         \* operations that failed in this run, <<stage, subject>>
    trace,          \* stages begun in this run, in order
    faults          \* environment faults injected so far

vars == <<files, gen, content, weather_cache, audit_csv, summary, out, report, env, peer, run, orch,
          pc, dl_idx, taxi_idx, exit_status, imp_conn, conn, view_exists, view, view_zones,
          leakage_csv, border_csv, velocity_csv, peer, loc, exc, log, failed, trace, faults>>

fsvars == <<files, gen, content, weather_cache>>
outvars == <<audit_csv, summary, out, report>>
dbvars == <<imp_conn, conn, view_exists, view, view_zones>>
tabvars == <<leakage_csv, border_csv, velocity_csv>>

Artifacts ==
    {"ghost_trip_audit", "leakage_analysis", "velocity_2024", "velocity_2025",
     "border_effect", "daily_trips_2025", "tips_economics", "elasticity"}

InitLoc ==
    [count |-> 0, vendors |-> <<>>, revenue |-> -1, q1_2024 |-> -1,
     q1_2025 |-> -1, joined |-> -1]

\* a fault is injected only while the budget lasts
Inject(f) == (f => faults < MaxFaults) /\ faults' = faults + (IF f THEN 1 ELSE 0)

\* a stage begins: it is appended to the trace unless it is the running one
Mark(stage) ==
    trace' = IF trace # <<>> /\ trace[Len(trace)] = stage THEN trace
             ELSE Append(trace, stage)

\* an exception leaves the try block of main
Raise(stage) ==
    /\ pc' = "except"
    /\ exc' = stage
    /\ failed' = failed \cup {<<stage, "">>}

Init ==
    /\ files = [k \in FileKeys |-> "absent"]
    /\ gen = [t \in TaxiSet |-> 0]
    /\ content = [k \in FileKeys |-> <<>>]
    /\ weather_cache = FALSE
    /\ audit_csv = <<>>
    /\ summary = <<>>
    /\ out = [a \in Artifacts |-> 0]
    /\ report = <<>>
    /\ env \in [pandas : BOOLEAN, scipy : BOOLEAN]
    /\ run = 0
    /\ orch = "idle"
    /\ pc = "off"
    /\ dl_idx = 1
    /\ taxi_idx = 1
    /\ exit_status = "none"
    /\ imp_conn = "none"
    /\ conn = "none"
    /\ view_exists = FALSE
    /\ view = <<>>
    /\ view_zones = {}
    /\ leakage_csv = <<>>
    /\ border_csv = <<>>
    /\ velocity_csv = [y \in {2024, 2025} |-> {}]
    /\ peer = <<>>
    /\ loc = InitLoc
    /\ exc = "none"
    /\ log = {}
    /\ failed = {}
    /\ trace = <<>>
    /\ faults = 0

\* ------------------------------------------------------------------------
\* The runner (app.py) up to the start of the pipeline
\* ------------------------------------------------------------------------
\* the runner is invoked: a new process, nothing of the previous one survives
\* but the files
StartRun ==
    /\ orch \in {"idle", "stopped", "done"}
    /\ run < MaxRuns
    /\ run' = run + 1
    /\ orch' = "webscraping"
    /\ pc' = "off"
    /\ dl_idx' = 1
    /\ taxi_idx' = 1
    /\ exit_status' = "none"
    /\ imp_conn' = "none"
    /\ conn' = "none"
    /\ view_exists' = FALSE
    /\ view' = <<>>
    /\ view_zones' = {}
    /\ loc' = InitLoc
    /\ exc' = "none"
    /\ log' = {}
    /\ failed' = {}
    /\ trace' = <<>>
    /\ UNCHANGED <<fsvars, outvars, env, peer, tabvars, faults>>

\* [1/5] pipeline/WebScraping.py: only its exit status is known to the runner;
\* on success the runner starts pipeline.py
WebScraping ==
    /\ orch = "webscraping"
    /\ \E f \in BOOLEAN :
        /\ Inject(f)
        /\ IF f
           THEN orch' = "stopped" /\ UNCHANGED <<pc, exit_status>>
           ELSE orch' = "pipeline" /\ pc' = "download" /\ exit_status' = "running"
    /\ UNCHANGED <<fsvars, outvars, env, peer, tabvars, run, dl_idx, taxi_idx, dbvars, loc, exc, log,
                   failed, trace>>

\* ------------------------------------------------------------------------
\* Phase 1: ensure_data_available and impute_december_data
\* ------------------------------------------------------------------------
\* one download_file call of ensure_data_available
\* the rows of the file download_file leaves at dest_path
DownloadRows(old, st, key, outcome) ==
    IF outcome = "ok" THEN PublishedRows(key)
    ELSE IF Exists(DownloadFile(st, outcome)) THEN old
    ELSE <<>>

Download ==
    /\ pc = "download"
    /\ LET key == required_downloads[dl_idx]
       IN IF AlreadyDownloaded(files[key])
          THEN UNCHANGED <<files, content, log, failed, faults>>
          ELSE \E outcome \in {"ok", "http_error", "mid_transfer"} :
                 /\ Inject(outcome # "ok")
                 /\ files' = [files EXCEPT ![key] = DownloadFile(files[key], outcome)]
                 /\ content' = [content EXCEPT ![key] =
                                    DownloadRows(@, files[key], key, outcome)]
                 /\ IF outcome = "ok"
                    THEN UNCHANGED <<log, failed>>
                    ELSE /\ log' = log \cup {<<"download_failed", ToString(key)>>}
                         /\ failed' = failed \cup {<<"download", ToString(key)>>}
    /\ Mark("download")
    /\ IF dl_idx < Len(required_downloads)
       THEN dl_idx' = dl_idx + 1 /\ pc' = pc
       ELSE dl_idx' = dl_idx /\ pc' = "impute_conn"
    /\ UNCHANGED <<gen, weather_cache, outvars, env, peer, tabvars, run, orch, taxi_idx, exit_status,
                   dbvars, loc, exc>>

\* conn = get_duckdb_conn() of impute_december_data; a failure is not caught
\* anywhere and ends the process
ImputeConnect ==
    /\ pc = "impute_conn"
    /\ \E f \in BOOLEAN :
        /\ Inject(f)
        /\ IF f
           THEN /\ pc' = "exited" /\ exit_status' = "failure"
                /\ failed' = failed \cup {<<"impute_conn", "">>}
                /\ UNCHANGED imp_conn
           ELSE /\ pc' = "impute" /\ imp_conn' = "open"
                /\ UNCHANGED <<exit_status, failed>>
    /\ taxi_idx' = 1
    /\ UNCHANGED <<fsvars, outvars, env, peer, tabvars, run, orch, dl_idx, conn, view_exists, view,
                   view_zones, loc,
                   exc, log, trace>>

\* one iteration of the loop of impute_december_data
Impute ==
    /\ pc = "impute"
    /\ LET taxi == TAXI_TYPES[taxi_idx]
           target == target_file(taxi)
           decision == ImputeDecision(files, taxi)
       IN IF decision = "already_exists"
          THEN /\ log' = log \cup {<<"already_exists", taxi>>}
               /\ UNCHANGED <<files, gen, content, failed, faults>>
          ELSE IF decision = "missing_source"
          THEN /\ log' = log \cup {<<"missing_source", taxi>>}
               /\ UNCHANGED <<files, gen, content, failed, faults>>
          ELSE \E outcome \in {"ok", "fail_before_write", "fail_mid_write"} :
                 /\ Inject(outcome # "ok")
                 /\ files' = [files EXCEPT ![target] = ImputeCopy(outcome)]
                 /\ IF outcome = "ok"
                    THEN \E s23 \in Sample(content[src_2023(taxi)]),
                            s24 \in Sample(content[src_2024(taxi)]) :
                            content' = [content EXCEPT ![target] = ImputeQuery(s23, s24)]
                    ELSE content' = [content EXCEPT ![target] = <<>>]
                 /\ IF outcome = "ok"
                    THEN /\ gen' = [gen EXCEPT ![taxi] = @ + 1]
                         /\ log' = log \cup {<<"sampling", taxi>>}
                         /\ UNCHANGED failed
                    ELSE /\ log' = log \cup {<<"sampling", taxi>>, <<"impute_error", taxi>>}
                         /\ failed' = failed \cup {<<"impute", taxi>>}
                         /\ UNCHANGED gen
    /\ Mark("impute")
    /\ IF taxi_idx < Len(TAXI_TYPES)
       THEN taxi_idx' = taxi_idx + 1 /\ pc' = pc
       ELSE taxi_idx' = taxi_idx /\ pc' = "connect"
    /\ UNCHANGED <<weather_cache, outvars, env, peer, tabvars, run, orch, dl_idx, exit_status, dbvars,
                   loc, exc>>

\* ------------------------------------------------------------------------
\* main: the connection and Phase 2, run_ghost_trip_audit
\* ------------------------------------------------------------------------
\* conn = get_duckdb_conn() of main, before the try block
Connect ==
    /\ pc = "connect"
    /\ \E f \in BOOLEAN :
        /\ Inject(f)
        /\ IF f
           THEN /\ pc' = "exited" /\ exit_status' = "failure"
                /\ failed' = failed \cup {<<"connect", "">>}
                /\ UNCHANGED conn
           ELSE /\ pc' = "view" /\ conn' = "open"
                /\ UNCHANGED <<exit_status, failed>>
    /\ UNCHANGED <<fsvars, outvars, env, peer, tabvars, run, orch, dl_idx, taxi_idx, imp_conn,
                   view_exists, view, view_zones, loc, exc, log, trace>>

\* CREATE OR REPLACE VIEW all_trips_2025; on an error run_ghost_trip_audit
\* prints it and returns 0, [] and main goes on with run_impact_analysis
CreateView ==
    /\ pc = "view"
    /\ \E f \in BOOLEAN :
        /\ Inject(f)
        /\ IF ~f /\ GlobReadable(files, 2025, "yellow") /\ GlobReadable(files, 2025, "green")
           THEN /\ view_exists' = TRUE
                /\ view' \in PipelineViews
                /\ view_zones' = ZonesOf(view')
                /\ pc' = "audit_query"
                /\ UNCHANGED <<loc, log, failed>>
           ELSE /\ log' = log \cup {<<"view_error", "">>}
                /\ failed' = failed \cup {<<"view", "">>}
                /\ loc' = [loc EXCEPT !.count = 0, !.vendors = <<>>]
                /\ pc' = "revenue"
                /\ UNCHANGED <<view_exists, view, view_zones>>
    /\ Mark("view")
    /\ UNCHANGED <<fsvars, outvars, env, peer, tabvars, run, orch, dl_idx, taxi_idx, exit_status,
                   imp_conn, conn, exc>>

\* conn.execute(audit_query): not guarded, an error propagates to main
RunAuditQuery ==
    /\ pc = "audit_query"
    /\ \E f \in BOOLEAN :
        /\ Inject(f)
        /\ IF f
           THEN Raise("audit") /\ UNCHANGED <<audit_csv, out>>
           ELSE /\ audit_csv' = AuditQuery(view)
                /\ out' = [out EXCEPT !["ghost_trip_audit"] = run]
                /\ pc' = "count_query"
                /\ UNCHANGED <<exc, failed>>
    /\ Mark("audit")
    /\ UNCHANGED <<fsvars, summary, report, env, peer, tabvars, run, orch, dl_idx, taxi_idx, exit_status,
                   dbvars, loc, log>>

\* count = SELECT COUNT(*) FROM the flagged table
RunCountQuery ==
    /\ pc = "count_query"
    /\ \E f \in BOOLEAN :
        /\ Inject(f)
        /\ IF f
           THEN Raise("audit") /\ UNCHANGED loc
           ELSE /\ loc' = [loc EXCEPT !.count = CountQuery(audit_csv)]
                /\ pc' = "vendor_query"
                /\ UNCHANGED <<exc, failed>>
    /\ UNCHANGED <<fsvars, outvars, env, peer, tabvars, run, orch, dl_idx, taxi_idx, exit_status,
                   dbvars, log, trace>>

\* vendors = the vendor query; return count, vendors
RunVendorQuery ==
    /\ pc = "vendor_query"
    /\ \E f \in BOOLEAN :
        /\ Inject(f)
        /\ IF f
           THEN Raise("audit") /\ UNCHANGED loc
           ELSE /\ \E v \in VendorQuery(audit_csv) : loc' = [loc EXCEPT !.vendors = v]
                /\ pc' = "revenue"
                /\ UNCHANGED <<exc, failed>>
    /\ UNCHANGED <<fsvars, outvars, env, peer, tabvars, run, orch, dl_idx, taxi_idx, exit_status,
                   dbvars, log, trace>>

\* ------------------------------------------------------------------------
\* Phase 3: run_impact_analysis
\* ------------------------------------------------------------------------
\* a <= b for timestamps <<year, month, day>>
DateLE(a, b) ==
    \/ a[1] < b[1]
    \/ a[1] = b[1] /\ a[2] < b[2]
    \/ a[1] = b[1] /\ a[2] = b[2] /\ a[3] <= b[3]

\* An entry of view_zones stands for `trips` rows of the view with the same
\* pickup date, zones and surcharge (COALESCE(congestion_surcharge, 0), cents).
\* WHERE pickup_time >= start_date
\*   AND (pickup_loc IN zone OR dropoff_loc IN zone)
RevenueWhere(t) ==
    /\ DateLE(START_DATE, t.pickup_date)
    /\ (t.pickup_loc \in CONGESTION_ZONE_IDS \/ t.dropoff_loc \in CONGESTION_ZONE_IDS)

RECURSIVE SumSurcharge(_)
SumSurcharge(S) ==
    IF S = {} THEN 0
    ELSE LET t == CHOOSE t \in S : TRUE
         IN t.congestion_surcharge * t.trips + SumSurcharge(S \ {t})

\* SELECT SUM(congestion_surcharge): NULL when no row qualifies
RevenueQuery(vz) ==
    LET rows == {t \in vz : RevenueWhere(t)}
    IN IF rows = {} THEN NULL ELSE <<SumSurcharge(rows)>>

\* revenue = revenue if revenue else 0.0
RevenueValue(r) == IF IsNull(r) \/ Val(r) = 0 THEN 0 ELSE Val(r)

\* 1. Revenue: try ... except: revenue = 0.0 (nothing is printed)
Revenue ==
    /\ pc = "revenue"
    /\ \E f \in BOOLEAN :
        /\ Inject(f)
        /\ IF f \/ ~view_exists
           THEN /\ loc' = [loc EXCEPT !.revenue = 0]
                /\ failed' = failed \cup {<<"revenue", "">>}
           ELSE /\ loc' = [loc EXCEPT !.revenue = RevenueValue(RevenueQuery(view_zones))]
                /\ UNCHANGED failed
    /\ Mark("revenue")
    /\ pc' = "leakage"
    /\ UNCHANGED <<fsvars, outvars, env, peer, tabvars, run, orch, dl_idx, taxi_idx, exit_status,
                   dbvars, exc, log>>

RECURSIVE SumTrips(_)
SumTrips(S) ==
    IF S = {} THEN 0
    ELSE LET t == CHOOSE t \in S : TRUE IN t.trips + SumTrips(S \ {t})

\* WHERE pickup_time >= start_date AND pickup_loc NOT IN zone AND dropoff_loc IN zone
LeakageWhere(t) ==
    /\ DateLE(START_DATE, t.pickup_date)
    /\ t.pickup_loc \notin CONGESTION_ZONE_IDS
    /\ t.dropoff_loc \in CONGESTION_ZONE_IDS

\* GROUP BY pickup_loc
LeakageGroup(vz, z) == {t \in vz : LeakageWhere(t) /\ t.pickup_loc = z}

\* COUNT(*)
total_trips(g) == SumTrips(g)

\* SUM(CASE WHEN congestion_surcharge > 0 THEN 1 ELSE 0 END)
compliant_trips(g) == SumTrips({t \in g : t.congestion_surcharge > 0})

\* CAST(compliant_trips AS FLOAT) / COUNT(*), as <<numerator, denominator>>
compliance_rate(g) == <<compliant_trips(g), total_trips(g)>>

\* leakage_rate as the share of the trips with a surcharge of exactly 0
leakage_rate_ZeroSurcharge(g) ==
    <<SumTrips({t \in g : t.congestion_surcharge = 0}), total_trips(g)>>

\* 1.0 - compliance_rate
leakage_rate(g) ==
    LET c == compliance_rate(g) IN <<c[2] - c[1], c[2]>>

\* HAVING COUNT(*) >= 100
LeakageHaving_AtLeast(g) == total_trips(g) >= LEAKAGE_MIN_TRIPS

\* HAVING COUNT(*) > 100
LeakageHaving(g) == total_trips(g) > LEAKAGE_MIN_TRIPS

\* the rows of the leakage query before ORDER BY and LIMIT
LeakageRows(vz) ==
    {[pickup_loc |-> z,
      total_trips |-> total_trips(LeakageGroup(vz, z)),
      compliant_trips |-> compliant_trips(LeakageGroup(vz, z)),
      compliance_rate |-> compliance_rate(LeakageGroup(vz, z)),
      leakage_rate |-> leakage_rate(LeakageGroup(vz, z))] :
        z \in {z \in {t.pickup_loc : t \in vz} : LeakageHaving(LeakageGroup(vz, z))}}

\* a >= b for rates with positive denominators
RateGE(a, b) == a[1] * b[2] >= b[1] * a[2]

\* the first n rows in descending order of leakage_rate, rows of equal rate
\* in any order
RECURSIVE LeakageOrder(_, _)
LeakageOrder(rows, n) ==
    IF n = 0 \/ rows = {} THEN {<<>>}
    ELSE UNION {{<<r>> \o s : s \in LeakageOrder(rows \ {r}, n - 1)} :
                  r \in {r \in rows : \A q \in rows : RateGE(r.leakage_rate, q.leakage_rate)}}

\* ORDER BY leakage_rate DESC LIMIT 20
LeakageQuery(vz) == LeakageOrder(LeakageRows(vz), LEAKAGE_LIMIT)

\* 2. Leakage: conn.execute(leakage_query) is not inside a try
Leakage ==
    /\ pc = "leakage"
    /\ \E f \in BOOLEAN :
        /\ Inject(f)
        /\ IF f \/ ~view_exists
           THEN Raise("leakage") /\ UNCHANGED <<out, leakage_csv>>
           ELSE /\ out' = [out EXCEPT !["leakage_analysis"] = run]
                /\ leakage_csv' \in LeakageQuery(view_zones)
                /\ pc' = "q1_2024"
                /\ UNCHANGED <<exc, failed>>
    /\ Mark("leakage")
    /\ UNCHANGED <<fsvars, audit_csv, summary, report, env, peer, border_csv, velocity_csv, run, orch,
                   dl_idx, taxi_idx, exit_status, dbvars, loc, log>>

\* get_q1_count(year): reads the year's files directly; except: return 0
Q1QueryFails(year, f) ==
    f \/ ~GlobReadable(files, year, "yellow") \/ ~GlobReadable(files, year, "green")

\* the rows read_parquet('<year>/<taxi>/*.parquet') returns, as <<file, index>>
GlobRows(year, taxi) ==
    UNION {{<<k, i>> : i \in 1..Len(content[k])} :
             k \in {k \in FileKeys : k[1] = year /\ k[3] = taxi /\ Exists(files[k])}}

\* q_zone without the bounds on the year
Q1Where_MonthOnly(year, r) ==
    /\ r.dropoff[2] \in {1, 2, 3}
    /\ r.DOLocationID \in CONGESTION_ZONE_IDS

\* WHERE month(t) IN (1, 2, 3) AND t >= '<year>-01-01' AND t < '<year>-04-01'
\*   AND loc IN (zone_ids_str)
Q1Where(year, r) ==
    /\ r.dropoff[2] \in {1, 2, 3}
    /\ DateLE(<<year, 1, 1>>, r.dropoff)
    /\ ~DateLE(<<year, 4, 1>>, r.dropoff)
    /\ r.DOLocationID \in CONGESTION_ZONE_IDS

\* SELECT COUNT(*) over the yellow and green files of the year; except: return 0
get_q1_count(year, f) ==
    IF Q1QueryFails(year, f) THEN 0
    ELSE Cardinality({x \in GlobRows(year, "yellow") \cup GlobRows(year, "green") :
                        Q1Where(year, content[x[1]][x[2]])})

\* diff = (q1_2025 - q1_2024) / q1_2024 * 100 if q1_2024 > 0 else 0, as
\* <<numerator, denominator>>
q1_pct_change(q1_2024, q1_2025) ==
    IF q1_2024 > 0 THEN <<(q1_2025 - q1_2024) * 100, q1_2024>> ELSE <<0, 1>>

\* 3. q1_2024 = get_q1_count(2024)
Q1_2024 ==
    /\ pc = "q1_2024"
    /\ \E f \in BOOLEAN :
        /\ Inject(f)
        /\ loc' = [loc EXCEPT !.q1_2024 = get_q1_count(2024, f)]
        /\ failed' = IF Q1QueryFails(2024, f) THEN failed \cup {<<"q1_2024", "">>}
                     ELSE failed
    /\ Mark("q1_2024")
    /\ pc' = "q1_2025"
    /\ UNCHANGED <<fsvars, outvars, env, peer, tabvars, run, orch, dl_idx, taxi_idx, exit_status,
                   dbvars, exc, log>>

\* Q1_2025 followed by the velocity export instead of the summary export
Q1_2025_SkipExport ==
    /\ pc = "q1_2025"
    /\ \E f \in BOOLEAN :
        /\ Inject(f)
        /\ loc' = [loc EXCEPT !.q1_2025 = get_q1_count(2025, f)]
        /\ failed' = IF Q1QueryFails(2025, f) THEN failed \cup {<<"q1_2025", "">>}
                     ELSE failed
    /\ Mark("q1_2025")
    /\ pc' = "velocity_2024"
    /\ UNCHANGED <<fsvars, outvars, env, peer, tabvars, run, orch, dl_idx, taxi_idx, exit_status,
                   dbvars, exc, log>>

\* q1_2025 = get_q1_count(2025)
Q1_2025 ==
    /\ pc = "q1_2025"
    /\ \E f \in BOOLEAN :
        /\ Inject(f)
        /\ loc' = [loc EXCEPT !.q1_2025 = get_q1_count(2025, f)]
        /\ failed' = IF Q1QueryFails(2025, f) THEN failed \cup {<<"q1_2025", "">>}
                     ELSE failed
    /\ Mark("q1_2025")
    /\ pc' = "export"
    /\ UNCHANGED <<fsvars, outvars, env, peer, tabvars, run, orch, dl_idx, taxi_idx, exit_status,
                   dbvars, exc, log>>

\* the stats dictionary handed to json.dump
Stats ==
    [run |-> run, complete |-> TRUE, revenue_2025 |-> loc.revenue,
     q1_2024_vol |-> loc.q1_2024, q1_2025_vol |-> loc.q1_2025,
     q1_pct_change |-> q1_pct_change(loc.q1_2024, loc.q1_2025),
     ghost_count |-> loc.count, suspicious_vendors |-> loc.vendors]

\* what open(.., "w") and json.dump leave in impact_stats.json
WriteStats(old, outcome) ==
    CASE outcome = "ok" -> Stats
      [] outcome = "open_failed" -> old
      [] outcome = "dump_failed" -> [run |-> run, complete |-> FALSE]

\* with open(impact_stats.json, "w") as f: json.dump(stats, f); not guarded
Export ==
    /\ pc = "export"
    /\ \E outcome \in {"ok", "open_failed", "dump_failed"} :
        /\ Inject(outcome # "ok")
        /\ summary' = WriteStats(summary, outcome)
        /\ IF outcome = "ok"
           THEN pc' = "velocity_2024" /\ UNCHANGED <<exc, failed>>
           ELSE Raise("export")
    /\ Mark("export")
    /\ UNCHANGED <<fsvars, audit_csv, out, report, env, peer, tabvars, run, orch, dl_idx, taxi_idx,
                   exit_status, dbvars, loc, log>>

\* Timestamps of the rows the velocity query reads are
\* <<year, month, day, hour, minute>>; trip_distance is in tenths of a mile.
\* the number of the day of a timestamp, counted from 1970-01-01
DayNumber(t) ==
    LET y == IF t[2] <= 2 THEN t[1] - 1 ELSE t[1]
        era == y \div 400
        yoe == y - era * 400
        mp == IF t[2] > 2 THEN t[2] - 3 ELSE t[2] + 9
        doy == (153 * mp + 2) \div 5 + t[3] - 1
        doe == yoe * 365 + yoe \div 4 - yoe \div 100 + doy
    IN era * 146097 + doe - 719468

MinuteNumber(t) == DayNumber(t) * 1440 + t[4] * 60 + t[5]

\* dayofweek(tpep_pickup_datetime): 0 is Sunday
dayofweek(t) == (DayNumber(t) + 4) % 7

\* hour(tpep_pickup_datetime)
hour(t) == t[4]

\* date_diff('minute', tpep_pickup_datetime, tpep_dropoff_datetime)
velocity_duration(r) == MinuteNumber(r.dropoff) - MinuteNumber(r.pickup)

\* GREATEST(duration, 1)
Greatest1(d) == IF d > 1 THEN d ELSE 1

\* trip_distance / (GREATEST(duration, 1) / 60.0), as the fraction
\* <<numerator, denominator>> in miles per hour
velocity_speed(r) == <<6 * r.trip_distance, Greatest1(velocity_duration(r))>>

\* WHERE month(tpep_pickup_datetime) IN (1, 2, 3) AND DOLocationID IN zone
\*   AND duration > 1 AND trip_distance > 0.1 AND speed < 100
VelocityWhere(r) ==
    /\ r.pickup[2] \in {1, 2, 3}
    /\ r.DOLocationID \in CONGESTION_ZONE_IDS
    /\ velocity_duration(r) > 1
    /\ r.trip_distance > 1
    /\ velocity_speed(r)[1] < 100 * velocity_speed(r)[2]

\* the rows of the year's yellow files that pass the filter, as <<file, index>>
VelocityRowsOf(year) ==
    {x \in GlobRows(year, "yellow") : VelocityWhere(content[x[1]][x[2]])}

\* the sum of the speeds of the rows xs, as a fraction
RECURSIVE SumSpeeds(_)
SumSpeeds(xs) ==
    IF xs = {} THEN <<0, 1>>
    ELSE LET x == CHOOSE x \in xs : TRUE
             v == velocity_speed(content[x[1]][x[2]])
             rest == SumSpeeds(xs \ {x})
         IN <<v[1] * rest[2] + rest[1] * v[2], v[2] * rest[2]>>

\* SELECT dow, hour, AVG(speed) ... GROUP BY 1, 2 over the rows xs
VelocityTable(xs) ==
    LET bucket(x) == <<dayofweek(content[x[1]][x[2]].pickup), hour(content[x[1]][x[2]].pickup)>>
    IN {LET g == {x \in xs : bucket(x) = b}
            total == SumSpeeds(g)
        IN [dow |-> b[1], hour |-> b[2],
            avg_speed |-> <<total[1], total[2] * Cardinality(g)>>] :
        b \in {bucket(x) : x \in xs}}

VelocityQuery(year) == VelocityTable(VelocityRowsOf(year))

\* export_velocity(year): try: conn.execute(q) except: print a warning
export_velocity(year, artifact, next) ==
    /\ \E f \in BOOLEAN :
        /\ Inject(f)
        /\ IF f \/ ~GlobReadable(files, year, "yellow")
           THEN /\ log' = log \cup {<<"velocity_failed", artifact>>}
                /\ failed' = failed \cup {<<artifact, "">>}
                /\ UNCHANGED <<out, velocity_csv>>
           ELSE /\ out' = [out EXCEPT ![artifact] = run]
                /\ velocity_csv' = [velocity_csv EXCEPT ![year] = VelocityQuery(year)]
                /\ UNCHANGED <<log, failed>>
    /\ Mark(artifact)
    /\ pc' = next
    /\ UNCHANGED <<fsvars, audit_csv, summary, report, env, peer, leakage_csv, border_csv, run, orch,
                   dl_idx, taxi_idx, exit_status, dbvars, loc, exc>>

\* 4. export_velocity(2024)
Velocity_2024 ==
    /\ pc = "velocity_2024"
    /\ export_velocity(2024, "velocity_2024", "velocity_2025")

\* export_velocity(2025)
Velocity_2025 ==
    /\ pc = "velocity_2025"
    /\ export_velocity(2025, "velocity_2025", "border_effect")

\* WHERE month(tpep_dropoff_datetime) IN (1,2,3) over the yellow files of the
\* year's directory
BorderRowsOf(year) ==
    {x \in GlobRows(year, "yellow") : content[x[1]][x[2]].dropoff[2] \in {1, 2, 3}}

\* q1_<year>: SELECT DOLocationID as loc, COUNT(*) as cnt ... GROUP BY 1;
\* cnt is NULL for a loc without a group
BorderCnt(year, z) ==
    LET g == {x \in BorderRowsOf(year) : content[x[1]][x[2]].DOLocationID = z}
    IN IF g = {} THEN NULL ELSE <<Cardinality(g)>>

BorderLocs(year) == {content[x[1]][x[2]].DOLocationID : x \in BorderRowsOf(year)}

\* COALESCE(cnt, 0)
Coalesce0(v) == IF IsNull(v) THEN 0 ELSE Val(v)

\* one row of q1_2024 a FULL OUTER JOIN q1_2025 b ON a.loc = b.loc
BorderRow(z) ==
    LET a == BorderCnt(2024, z)
        b == BorderCnt(2025, z)
    IN [location_id |-> z,
        count_2024 |-> Coalesce0(a),
        count_2025 |-> Coalesce0(b),
        diff |-> Coalesce0(b) - Coalesce0(a),
        pct_change |-> IF Coalesce0(a) > 0
                       THEN <<(Coalesce0(b) - Coalesce0(a)) * 100, Val(a)>>
                       ELSE <<0, 1>>]

RECURSIVE BorderRowsFrom(_)
BorderRowsFrom(locs) ==
    IF locs = {} THEN <<>>
    ELSE LET z == CHOOSE z \in locs : \A y \in locs : z <= y
         IN <<BorderRow(z)>> \o BorderRowsFrom(locs \ {z})

\* the rows the border query copies to border_effect.csv; the query does not
\* order them, they are listed by location id
BorderQuery == BorderRowsFrom(BorderLocs(2024) \cup BorderLocs(2025))

\* 5. Border effect: try: conn.execute(border_query) except: print a warning
BorderEffect ==
    /\ pc = "border_effect"
    /\ \E f \in BOOLEAN :
        /\ Inject(f)
        /\ IF f \/ ~GlobReadable(files, 2024, "yellow") \/ ~GlobReadable(files, 2025, "yellow")
           THEN /\ log' = log \cup {<<"border_failed", "">>}
                /\ failed' = failed \cup {<<"border_effect", "">>}
                /\ UNCHANGED <<out, border_csv>>
           ELSE /\ out' = [out EXCEPT !["border_effect"] = run]
                /\ border_csv' = BorderQuery
                /\ UNCHANGED <<log, failed>>
    /\ Mark("border_effect")
    /\ pc' = "weather"
    /\ UNCHANGED <<fsvars, audit_csv, summary, report, env, peer, leakage_csv, velocity_csv, run, orch,
                   dl_idx, taxi_idx, exit_status, dbvars, loc, exc>>

\* ------------------------------------------------------------------------
\* Phase 4: fetch_weather_and_analyze
\* ------------------------------------------------------------------------
\* fetch_weather_and_analyze that begins by deleting an elasticity.txt left
\* in the output directory
FetchWeather_RemoveStale ==
    /\ pc = "weather"
    /\ IF weather_cache
       THEN UNCHANGED <<weather_cache, log, failed, faults>>
       ELSE \E f \in BOOLEAN :
              /\ Inject(f)
              /\ IF f
                 THEN /\ log' = log \cup {<<"weather_failed", "">>}
                      /\ failed' = failed \cup {<<"weather", "">>}
                      /\ UNCHANGED weather_cache
                 ELSE /\ weather_cache' = TRUE
                      /\ UNCHANGED <<log, failed>>
    /\ Mark("weather")
    /\ pc' = "daily_trips"
    /\ out' = [out EXCEPT !["elasticity"] = 0]
    /\ UNCHANGED <<files, gen, content, audit_csv, summary, report, env, peer, tabvars, run, orch,
                   dl_idx, taxi_idx, exit_status, dbvars, loc, exc>>

\* 1. the weather series is fetched unless cached; a failure is printed
FetchWeather ==
    /\ pc = "weather"
    /\ IF weather_cache
       THEN UNCHANGED <<weather_cache, log, failed, faults>>
       ELSE \E f \in BOOLEAN :
              /\ Inject(f)
              /\ IF f
                 THEN /\ log' = log \cup {<<"weather_failed", "">>}
                      /\ failed' = failed \cup {<<"weather", "">>}
                      /\ UNCHANGED weather_cache
                 ELSE /\ weather_cache' = TRUE
                      /\ UNCHANGED <<log, failed>>
    /\ Mark("weather")
    /\ pc' = "daily_trips"
    /\ UNCHANGED <<files, gen, content, outvars, env, peer, tabvars, run, orch, dl_idx, taxi_idx, exit_status,
                   dbvars, loc, exc>>

\* a COPY from all_trips_2025 that is not inside a try
UnguardedCopy(artifact, next) ==
    /\ \E f \in BOOLEAN :
        /\ Inject(f)
        /\ IF f \/ ~view_exists
           THEN Raise(artifact) /\ UNCHANGED out
           ELSE /\ out' = [out EXCEPT ![artifact] = run]
                /\ pc' = next
                /\ UNCHANGED <<exc, failed>>
    /\ Mark(artifact)
    /\ UNCHANGED <<fsvars, audit_csv, summary, report, env, peer, tabvars, run, orch, dl_idx, taxi_idx,
                   exit_status, dbvars, loc, log>>

\* 2. conn.execute(daily_trips_query)
DailyTrips ==
    /\ pc = "daily_trips"
    /\ UnguardedCopy("daily_trips_2025", "tips_economics")

\* 3. conn.execute(tips_query)
TipEconomics ==
    /\ pc = "tips_economics"
    /\ UnguardedCopy("tips_economics", "elasticity")

\* 4. Elasticity: only with pandas and scipy; errors are printed
\* if len(df_merge) > 10:
ElasticityEnoughRows(joined) == joined > ELASTICITY_MIN_ROWS

\* Elasticity without the PANDAS_AVAILABLE and SCIPY_AVAILABLE test: the try
\* block is entered and raises when pd or stats is not defined
Elasticity_NoFlagCheck ==
    /\ pc = "elasticity"
    /\ Mark("elasticity")
    /\ IF ~weather_cache \/ ~(env.pandas /\ env.scipy)
       THEN /\ log' = log \cup {<<"economics_error", "">>}
            /\ failed' = failed \cup {<<"elasticity", "">>}
            /\ UNCHANGED <<out, faults, loc>>
       ELSE \E joined \in JoinedCounts, f \in BOOLEAN :
              /\ Inject(f)
              /\ IF f
                 THEN /\ log' = log \cup {<<"economics_error", "">>}
                      /\ failed' = failed \cup {<<"elasticity", "">>}
                      /\ UNCHANGED <<out, loc>>
                 ELSE /\ loc' = [loc EXCEPT !.joined = joined]
                      /\ out' = IF ElasticityEnoughRows(joined)
                                THEN [out EXCEPT !["elasticity"] = run]
                                ELSE out
                      /\ UNCHANGED <<log, failed>>
    /\ pc' = "finally"
    /\ UNCHANGED <<fsvars, audit_csv, summary, report, env, peer, tabvars, run, orch, dl_idx, taxi_idx,
                   exit_status, dbvars, exc>>

Elasticity ==
    /\ pc = "elasticity"
    /\ IF env.pandas /\ env.scipy
       THEN /\ Mark("elasticity")
            /\ IF ~weather_cache
               THEN /\ log' = log \cup {<<"economics_error", "">>}
                    /\ failed' = failed \cup {<<"elasticity", "">>}
                    /\ UNCHANGED <<out, faults, loc>>
               ELSE \E joined \in JoinedCounts, f \in BOOLEAN :
                      /\ Inject(f)
                      /\ IF f
                         THEN /\ log' = log \cup {<<"economics_error", "">>}
                              /\ failed' = failed \cup {<<"elasticity", "">>}
                              /\ UNCHANGED <<out, loc>>
                         ELSE /\ loc' = [loc EXCEPT !.joined = joined]
                              /\ out' = IF ElasticityEnoughRows(joined)
                                        THEN [out EXCEPT !["elasticity"] = run]
                                        ELSE out
                              /\ UNCHANGED <<log, failed>>
       ELSE UNCHANGED <<out, log, failed, trace, faults, loc>>
    /\ pc' = "finally"
    /\ UNCHANGED <<fsvars, audit_csv, summary, report, env, peer, tabvars, run, orch, dl_idx, taxi_idx,
                   exit_status, dbvars, exc>>

\* ------------------------------------------------------------------------
\* main: except, finally, and the rest of the runner
\* ------------------------------------------------------------------------
\* except that lets the exception leave main once the finally clause has run
Except_Reraise ==
    /\ pc = "except"
    /\ log' = log \cup {<<"critical", exc>>}
    /\ exc' = "none"
    /\ conn' = "closed"
    /\ pc' = "exited"
    /\ exit_status' = "failure"
    /\ UNCHANGED <<fsvars, outvars, env, peer, tabvars, run, orch, dl_idx, taxi_idx, imp_conn,
                   view_exists, view, view_zones, loc, failed, trace, faults>>

\* except Exception as e: print CRITICAL PIPELINE ERROR and the traceback
Except ==
    /\ pc = "except"
    /\ log' = log \cup {<<"critical", exc>>}
    /\ exc' = "none"
    /\ pc' = "finally"
    /\ UNCHANGED <<fsvars, outvars, env, peer, tabvars, run, orch, dl_idx, taxi_idx, exit_status,
                   dbvars, loc, failed, trace, faults>>

\* finally: conn.close(); print Pipeline Completed; the process ends normally
Finally ==
    /\ pc = "finally"
    /\ conn' = "closed"
    /\ log' = log \cup {<<"completed", "">>}
    /\ pc' = "exited"
    /\ exit_status' = "success"
    /\ UNCHANGED <<fsvars, outvars, env, peer, tabvars, run, orch, dl_idx, taxi_idx, imp_conn,
                   view_exists, view, view_zones, loc, exc, failed, trace, faults>>

\* [2/5] subprocess.run(pipeline.py, check=True) returns or raises
PipelineReturn ==
    /\ orch = "pipeline"
    /\ pc = "exited"
    /\ orch' = IF exit_status = "success" THEN "report" ELSE "stopped"
    /\ pc' = "off"
    /\ UNCHANGED <<fsvars, outvars, env, peer, tabvars, run, dl_idx, taxi_idx, exit_status, dbvars, loc,
                   exc, log, failed, trace, faults>>

\* [3/5] generate_report.py: imports pandas, loads impact_stats.json and
\* elasticity.txt when they exist and saves the PDF
GenerateReport ==
    /\ orch = "report"
    /\ \E f \in BOOLEAN :
        /\ Inject(f)
        /\ IF f \/ ~env.pandas \/ (summary # <<>> /\ ~summary.complete)
           THEN orch' = "stopped" /\ UNCHANGED report
           ELSE /\ orch' = "blogs"
                /\ report' = [run |-> run,
                              stats_run |-> IF summary = <<>> THEN 0 ELSE summary.run,
                              elasticity_run |-> out["elasticity"]]
    /\ UNCHANGED <<fsvars, audit_csv, summary, out, env, peer, tabvars, run, pc, dl_idx, taxi_idx,
                   exit_status, dbvars, loc, exc, log, failed, trace>>

\* [4/5] generate_blogs.py
GenerateBlogs ==
    /\ orch = "blogs"
    /\ \E f \in BOOLEAN :
        /\ Inject(f)
        /\ orch' = IF f THEN "stopped" ELSE "dashboard"
    /\ UNCHANGED <<fsvars, outvars, env, peer, tabvars, run, pc, dl_idx, taxi_idx, exit_status, dbvars,
                   loc, exc, log, failed, trace>>

\* [5/5] the dashboard runs until it is stopped or fails; main then returns
Dashboard ==
    /\ orch = "dashboard"
    /\ orch' = "done"
    /\ UNCHANGED <<fsvars, outvars, env, peer, tabvars, run, pc, dl_idx, taxi_idx, exit_status, dbvars,
                   loc, exc, log, failed, trace, faults>>

Next ==
    \/ StartRun
    \/ WebScraping
    \/ Download
    \/ ImputeConnect
    \/ Impute
    \/ Connect
    \/ CreateView
    \/ RunAuditQuery
    \/ RunCountQuery
    \/ RunVendorQuery
    \/ Revenue
    \/ Leakage
    \/ Q1_2024
    \/ Q1_2025
    \/ Export
    \/ Velocity_2024
    \/ Velocity_2025
    \/ BorderEffect
    \/ FetchWeather
    \/ DailyTrips
    \/ TipEconomics
    \/ Elasticity
    \/ Except
    \/ Finally
    \/ PipelineReturn
    \/ GenerateReport
    \/ GenerateBlogs
    \/ Dashboard

Spec == Init /\ [][Next]_vars

\* ------------------------------------------------------------------------
\* The audit specification: run_ghost_trip_audit on every view of AuditViews,
\* started where main has built the view
\* ------------------------------------------------------------------------
AuditInit ==
    /\ files = [k \in FileKeys |-> "complete"]
    /\ gen = [t \in TaxiSet |-> 1]
    /\ content = [k \in FileKeys |-> <<>>]
    /\ weather_cache = FALSE
    /\ audit_csv = <<>>
    /\ summary = <<>>
    /\ out = [a \in Artifacts |-> 0]
    /\ report = <<>>
    /\ env = [pandas |-> TRUE, scipy |-> TRUE]
    /\ run = 1
    /\ orch = "pipeline"
    /\ pc = "audit_query"
    /\ dl_idx = Len(required_downloads)
    /\ taxi_idx = Len(TAXI_TYPES)
    /\ exit_status = "running"
    /\ imp_conn = "open"
    /\ conn = "open"
    /\ view_exists = TRUE
    /\ view \in AuditViews
    /\ view_zones = ZonesOf(view)
    /\ leakage_csv = <<>>
    /\ border_csv = <<>>
    /\ velocity_csv = [y \in {2024, 2025} |-> {}]
    /\ peer = <<>>
    /\ loc = InitLoc
    /\ exc = "none"
    /\ log = {<<"sampling", t>> : t \in TaxiSet}
    /\ failed = {}
    /\ trace = <<"download", "impute", "view">>
    /\ faults = 0

\* impute_december_data after its connection is opened
ImputeInit ==
    /\ files \in ImputeFiles
    /\ gen = [t \in TaxiSet |-> 0]
    /\ \E y23 \in YellowSources(2023), y24 \in YellowSources(2024),
          g23 \in GreenSources(2023), g24 \in GreenSources(2024) :
          content = [k \in FileKeys |->
                        IF ~Exists(files[k]) THEN <<>>
                        ELSE IF k = src_2023("yellow") THEN y23
                        ELSE IF k = src_2024("yellow") THEN y24
                        ELSE IF k = src_2023("green") THEN g23
                        ELSE IF k = src_2024("green") THEN g24
                        ELSE <<>>]
    /\ weather_cache = FALSE
    /\ audit_csv = <<>>
    /\ summary = <<>>
    /\ out = [a \in Artifacts |-> 0]
    /\ report = <<>>
    /\ env = [pandas |-> TRUE, scipy |-> TRUE]
    /\ run = 1
    /\ orch = "pipeline"
    /\ pc = "impute"
    /\ dl_idx = Len(required_downloads)
    /\ taxi_idx = 1
    /\ exit_status = "running"
    /\ imp_conn = "open"
    /\ conn = "none"
    /\ view_exists = FALSE
    /\ view = <<>>
    /\ view_zones = {}
    /\ leakage_csv = <<>>
    /\ border_csv = <<>>
    /\ velocity_csv = [y \in {2024, 2025} |-> {}]
    /\ peer = <<>>
    /\ loc = InitLoc
    /\ exc = "none"
    /\ log = {}
    /\ failed = {}
    /\ trace = <<"download">>
    /\ faults = 0

ImputeNext == Impute

SpecImpute == ImputeInit /\ [][ImputeNext]_vars

\* run_impact_analysis at the Q1 counts, the leakage table written
Q1Init ==
    /\ files \in Q1Files
    /\ gen = [t \in TaxiSet |-> 1]
    /\ \E y24 \in YellowQ1Contents(2024), y25 \in YellowQ1Contents(2025),
          g24 \in GreenQ1Contents(2024), g25 \in GreenQ1Contents(2025) :
          content = [k \in FileKeys |->
                        IF ~Exists(files[k]) THEN <<>>
                        ELSE IF k = <<2024, 12, "yellow">> THEN y24
                        ELSE IF k = <<2025, 1, "yellow">> THEN y25
                        ELSE IF k = <<2024, 12, "green">> THEN g24
                        ELSE IF k = <<2025, 1, "green">> THEN g25
                        ELSE <<>>]
    /\ weather_cache = FALSE
    /\ audit_csv = <<>>
    /\ summary = <<>>
    /\ out = [a \in Artifacts |->
                IF a \in {"ghost_trip_audit", "leakage_analysis"} THEN 1 ELSE 0]
    /\ report = <<>>
    /\ env = [pandas |-> TRUE, scipy |-> TRUE]
    /\ run = 1
    /\ orch = "pipeline"
    /\ pc = "q1_2024"
    /\ dl_idx = Len(required_downloads)
    /\ taxi_idx = Len(TAXI_TYPES)
    /\ exit_status = "running"
    /\ imp_conn = "open"
    /\ conn = "open"
    /\ view_exists = TRUE
    /\ view = <<RowOK>>
    /\ view_zones = ZonesOf(view)
    /\ leakage_csv = <<>>
    /\ border_csv = <<>>
    /\ velocity_csv = [y \in {2024, 2025} |-> {}]
    /\ peer = <<>>
    /\ loc = [InitLoc EXCEPT !.revenue = RevenueValue(RevenueQuery(view_zones))]
    /\ exc = "none"
    /\ log = {<<"already_exists", t>> : t \in TaxiSet}
    /\ failed = {}
    /\ trace = <<"download", "impute", "view", "audit", "revenue", "leakage">>
    /\ faults = 0

Q1Next ==
    \/ Q1_2024
    \/ Q1_2025
    \/ Export

SpecQ1 == Q1Init /\ [][Q1Next]_vars

\* run_impact_analysis at the border effect, the velocity tables written
BorderInit ==
    /\ files \in {[k \in FileKeys |-> "complete"],
                  [k \in FileKeys |-> IF k = target_file("yellow") THEN "partial"
                                      ELSE "complete"]}
    /\ gen = [t \in TaxiSet |-> 1]
    /\ \E y24 \in YellowQ1Contents(2024), y25 \in YellowQ1Contents(2025),
          d25 \in YellowSources(2025) :
          content = [k \in FileKeys |->
                        IF files[k] # "complete" THEN <<>>
                        ELSE IF k = <<2024, 12, "yellow">> THEN y24
                        ELSE IF k = <<2025, 1, "yellow">> THEN y25
                        ELSE IF k = target_file("yellow") THEN d25
                        ELSE <<>>]
    /\ weather_cache = FALSE
    /\ audit_csv = <<>>
    /\ summary = <<>>
    /\ out = [a \in Artifacts |->
                IF a \in {"ghost_trip_audit", "leakage_analysis", "velocity_2024",
                          "velocity_2025"} THEN 1 ELSE 0]
    /\ report = <<>>
    /\ env = [pandas |-> TRUE, scipy |-> TRUE]
    /\ run = 1
    /\ orch = "pipeline"
    /\ pc = "border_effect"
    /\ dl_idx = Len(required_downloads)
    /\ taxi_idx = Len(TAXI_TYPES)
    /\ exit_status = "running"
    /\ imp_conn = "open"
    /\ conn = "open"
    /\ view_exists = TRUE
    /\ view = <<RowOK>>
    /\ view_zones = ZonesOf(view)
    /\ leakage_csv = <<>>
    /\ border_csv = <<>>
    /\ velocity_csv = [y \in {2024, 2025} |-> {}]
    /\ peer = <<>>
    /\ loc = [InitLoc EXCEPT !.revenue = RevenueValue(RevenueQuery(view_zones)), !.q1_2024 = 0, !.q1_2025 = 0]
    /\ exc = "none"
    /\ log = {<<"sampling", t>> : t \in TaxiSet}
    /\ failed = {}
    /\ trace = <<"download", "impute", "view", "audit", "revenue", "leakage", "q1_2024",
                 "q1_2025", "export", "velocity_2024", "velocity_2025">>
    /\ faults = 0

BorderNext == BorderEffect

SpecBorder == BorderInit /\ [][BorderNext]_vars

\* run_impact_analysis at the leakage query; the rows of the view are counted
\* in view_zones and not listed in view
LeakageInit ==
    /\ files = [k \in FileKeys |-> "complete"]
    /\ gen = [t \in TaxiSet |-> 1]
    /\ content = [k \in FileKeys |-> <<>>]
    /\ weather_cache = FALSE
    /\ audit_csv = <<>>
    /\ summary = <<>>
    /\ out = [a \in Artifacts |-> IF a = "ghost_trip_audit" THEN 1 ELSE 0]
    /\ report = <<>>
    /\ env = [pandas |-> TRUE, scipy |-> TRUE]
    /\ run = 1
    /\ orch = "pipeline"
    /\ pc = "leakage"
    /\ dl_idx = Len(required_downloads)
    /\ taxi_idx = Len(TAXI_TYPES)
    /\ exit_status = "running"
    /\ imp_conn = "open"
    /\ conn = "open"
    /\ view_exists = TRUE
    /\ view = <<>>
    /\ view_zones \in LeakageViews
    /\ leakage_csv = <<>>
    /\ border_csv = <<>>
    /\ velocity_csv = [y \in {2024, 2025} |-> {}]
    /\ peer = <<>>
    /\ loc = [InitLoc EXCEPT !.revenue = RevenueValue(RevenueQuery(view_zones))]
    /\ exc = "none"
    /\ log = {<<"sampling", t>> : t \in TaxiSet}
    /\ failed = {}
    /\ trace = <<"download", "impute", "view", "audit", "revenue">>
    /\ faults = 0

LeakageNext == Leakage

SpecLeakage == LeakageInit /\ [][LeakageNext]_vars

\* rows of the 2025 files as they appear in the view: picked up on the start
\* date inside the zone, later in the year with the drop-off inside the
\* zone, on the last day of the year without surcharge, the day before the
\* start date, outside the zone at both ends, in 2024, and in 2026
RevenueEntries ==
    {[pickup_date |-> START_DATE, pickup_loc |-> 4, dropoff_loc |-> 1,
      congestion_surcharge |-> 250, trips |-> 2],
     [pickup_date |-> <<2025, 6, 15>>, pickup_loc |-> 1, dropoff_loc |-> 4,
      congestion_surcharge |-> 75, trips |-> 3],
     [pickup_date |-> <<2025, 12, 31>>, pickup_loc |-> 4, dropoff_loc |-> 4,
      congestion_surcharge |-> 0, trips |-> 5],
     [pickup_date |-> <<2025, 1, 4>>, pickup_loc |-> 4, dropoff_loc |-> 4,
      congestion_surcharge |-> 250, trips |-> 7],
     [pickup_date |-> <<2025, 3, 1>>, pickup_loc |-> 1, dropoff_loc |-> 3,
      congestion_surcharge |-> 250, trips |-> 11],
     [pickup_date |-> <<2024, 12, 31>>, pickup_loc |-> 4, dropoff_loc |-> 4,
      congestion_surcharge |-> 250, trips |-> 13],
     [pickup_date |-> <<2026, 1, 1>>, pickup_loc |-> 4, dropoff_loc |-> 4,
      congestion_surcharge |-> 250, trips |-> 1]}

RevenueViews == SUBSET RevenueEntries

\* run_impact_analysis at the revenue query; the rows of the view are counted
\* in view_zones and not listed in view
RevenueInit ==
    /\ files = [k \in FileKeys |-> "complete"]
    /\ gen = [t \in TaxiSet |-> 1]
    /\ content = [k \in FileKeys |-> <<>>]
    /\ weather_cache = FALSE
    /\ audit_csv = <<>>
    /\ summary = <<>>
    /\ out = [a \in Artifacts |-> IF a = "ghost_trip_audit" THEN 1 ELSE 0]
    /\ report = <<>>
    /\ env = [pandas |-> TRUE, scipy |-> TRUE]
    /\ run = 1
    /\ orch = "pipeline"
    /\ pc = "revenue"
    /\ dl_idx = Len(required_downloads)
    /\ taxi_idx = Len(TAXI_TYPES)
    /\ exit_status = "running"
    /\ imp_conn = "open"
    /\ conn = "open"
    /\ view_exists = TRUE
    /\ view = <<>>
    /\ view_zones \in RevenueViews
    /\ leakage_csv = <<>>
    /\ border_csv = <<>>
    /\ velocity_csv = [y \in {2024, 2025} |-> {}]
    /\ peer = <<>>
    /\ loc = InitLoc
    /\ exc = "none"
    /\ log = {<<"sampling", t>> : t \in TaxiSet}
    /\ failed = {}
    /\ trace = <<"download", "impute", "view", "audit">>
    /\ faults = 0

RevenueNext == Revenue

SpecRevenue == RevenueInit /\ [][RevenueNext]_vars

\* a row of a yellow file as the velocity query reads it
Trip(pickup, dropoff, distance, zone) ==
    [pickup |-> pickup, dropoff |-> dropoff, trip_distance |-> distance,
     DOLocationID |-> zone]

\* rows of a yellow file of a year: two trips of the same weekday and hour
\* (10 and 30 mph), a trip of 1 minute, a trip of 0.1 mile, a trip of exactly
\* 100 mph, a drop-off outside the zone, a pickup on April 1, a trip over the
\* midnight that ends Q1, and a trip picked up in February of the year before
VelocityTrips(year) ==
    <<Trip(<<year, 1, 6, 8, 10>>, <<year, 1, 6, 8, 40>>, 50, 4),
      Trip(<<year, 1, 13, 8, 30>>, <<year, 1, 13, 8, 50>>, 100, 4),
      Trip(<<year, 2, 1, 9, 0>>, <<year, 2, 1, 9, 1>>, 5, 4),
      Trip(<<year, 2, 2, 9, 0>>, <<year, 2, 2, 9, 10>>, 1, 4),
      Trip(<<year, 2, 3, 9, 0>>, <<year, 2, 3, 9, 6>>, 100, 4),
      Trip(<<year, 3, 1, 10, 0>>, <<year, 3, 1, 10, 30>>, 50, 1),
      Trip(<<year, 4, 1, 10, 0>>, <<year, 4, 1, 10, 30>>, 50, 4),
      Trip(<<year, 3, 31, 23, 50>>, <<year, 4, 1, 0, 20>>, 60, 12),
      Trip(<<year - 1, 2, 5, 17, 0>>, <<year - 1, 2, 5, 17, 30>>, 40, 4)>>

\* contents of the January file of 2025: any of the rows above
VelocityContents(year) == Sample(VelocityTrips(year))

\* contents of the 2024 file: its first two rows and the stray row, or fewer
VelocityContents2024 ==
    {Pick(VelocityTrips(2024), keep, 1) : keep \in SUBSET {1, 2, 9}}

\* run_impact_analysis at the velocity tables; every file is complete, or the
\* imputed yellow file of 2025 is a partial file
VelocityInit ==
    /\ files \in {[k \in FileKeys |-> "complete"],
                  [k \in FileKeys |-> IF k = target_file("yellow") THEN "partial"
                                      ELSE "complete"]}
    /\ gen = [t \in TaxiSet |-> 1]
    /\ \E y24 \in VelocityContents2024, y25 \in VelocityContents(2025) :
          content = [k \in FileKeys |->
                        IF k = <<2024, 12, "yellow">> THEN y24
                        ELSE IF k = <<2025, 1, "yellow">> THEN y25
                        ELSE <<>>]
    /\ weather_cache = FALSE
    /\ audit_csv = <<>>
    /\ summary = <<>>
    /\ out = [a \in Artifacts |-> IF a \in {"ghost_trip_audit", "leakage_analysis"}
                                  THEN 1 ELSE 0]
    /\ report = <<>>
    /\ env = [pandas |-> TRUE, scipy |-> TRUE]
    /\ run = 1
    /\ orch = "pipeline"
    /\ pc = "velocity_2024"
    /\ dl_idx = Len(required_downloads)
    /\ taxi_idx = Len(TAXI_TYPES)
    /\ exit_status = "running"
    /\ imp_conn = "open"
    /\ conn = "open"
    /\ view_exists = TRUE
    /\ view = <<>>
    /\ view_zones = {}
    /\ leakage_csv = <<>>
    /\ border_csv = <<>>
    /\ velocity_csv = [y \in {2024, 2025} |-> {}]
    /\ peer = <<>>
    /\ loc = [InitLoc EXCEPT !.revenue = 0, !.q1_2024 = 0, !.q1_2025 = 0]
    /\ exc = "none"
    /\ log = {<<"sampling", t>> : t \in TaxiSet}
    /\ failed = {}
    /\ trace = <<"download", "impute", "view", "audit", "revenue", "leakage", "q1_2024",
                 "q1_2025", "export">>
    /\ faults = 0

VelocityNext ==
    \/ Velocity_2024
    \/ Velocity_2025

SpecVelocity == VelocityInit /\ [][VelocityNext]_vars

\* ------------------------------------------------------------------------
\* Two pipeline processes on the same data and output directories
\* ------------------------------------------------------------------------
\* the variables of a pipeline process; the rest is the file system
Locals ==
    [run |-> run, pc |-> pc, dl_idx |-> dl_idx, taxi_idx |-> taxi_idx,
     exit_status |-> exit_status, imp_conn |-> imp_conn, conn |-> conn,
     view_exists |-> view_exists, view |-> view, view_zones |-> view_zones,
     loc |-> loc, exc |-> exc, log |-> log, failed |-> failed, trace |-> trace]

\* the operating system takes the processor from the running process and
\* gives it to the other one
Switch ==
    /\ peer # <<>>
    /\ peer.pc # "exited"
    /\ peer' = Locals
    /\ run' = peer.run
    /\ pc' = peer.pc
    /\ dl_idx' = peer.dl_idx
    /\ taxi_idx' = peer.taxi_idx
    /\ exit_status' = peer.exit_status
    /\ imp_conn' = peer.imp_conn
    /\ conn' = peer.conn
    /\ view_exists' = peer.view_exists
    /\ view' = peer.view
    /\ view_zones' = peer.view_zones
    /\ loc' = peer.loc
    /\ exc' = peer.exc
    /\ log' = peer.log
    /\ failed' = peer.failed
    /\ trace' = peer.trace
    /\ UNCHANGED <<fsvars, outvars, env, orch, tabvars, faults>>

\* ImputeCheck that leaves the target to the other process when that one is
\* about to write it
ImputeCheck_Locked ==
    /\ pc = "impute"
    /\ LET taxi == TAXI_TYPES[taxi_idx]
           decision == IF peer.pc = "impute_copy" /\ peer.taxi_idx = taxi_idx
                       THEN "already_exists"
                       ELSE ImputeDecision(files, taxi)
       IN /\ log' = log \cup {<<IF decision = "copy" THEN "sampling" ELSE decision, taxi>>}
          /\ IF decision = "copy"
             THEN pc' = "impute_copy" /\ taxi_idx' = taxi_idx
             ELSE IF taxi_idx < Len(TAXI_TYPES)
             THEN taxi_idx' = taxi_idx + 1 /\ pc' = pc
             ELSE taxi_idx' = taxi_idx /\ pc' = "connect"
    /\ Mark("impute")
    /\ UNCHANGED <<fsvars, outvars, env, peer, tabvars, run, orch, dl_idx, exit_status, dbvars,
                   loc, exc, failed, faults>>

\* an iteration of the loop of impute_december_data up to the COPY: the
\* existence tests and the print before the query
ImputeCheck ==
    /\ pc = "impute"
    /\ LET taxi == TAXI_TYPES[taxi_idx]
           decision == ImputeDecision(files, taxi)
       IN /\ log' = log \cup {<<IF decision = "copy" THEN "sampling" ELSE decision, taxi>>}
          /\ IF decision = "copy"
             THEN pc' = "impute_copy" /\ taxi_idx' = taxi_idx
             ELSE IF taxi_idx < Len(TAXI_TYPES)
             THEN taxi_idx' = taxi_idx + 1 /\ pc' = pc
             ELSE taxi_idx' = taxi_idx /\ pc' = "connect"
    /\ Mark("impute")
    /\ UNCHANGED <<fsvars, outvars, env, peer, tabvars, run, orch, dl_idx, exit_status, dbvars,
                   loc, exc, failed, faults>>

\* conn.execute(query) of the iteration: the COPY writes the target whatever
\* is there, and the loop goes on
ImputeWrite ==
    /\ pc = "impute_copy"
    /\ LET taxi == TAXI_TYPES[taxi_idx]
           target == target_file(taxi)
       IN \E outcome \in {"ok", "fail_before_write", "fail_mid_write"} :
            /\ Inject(outcome # "ok")
            /\ files' = [files EXCEPT ![target] =
                            IF outcome = "fail_before_write" THEN @ ELSE ImputeCopy(outcome)]
            /\ IF outcome = "ok"
               THEN \E s23 \in Sample(content[src_2023(taxi)]),
                       s24 \in Sample(content[src_2024(taxi)]) :
                       content' = [content EXCEPT ![target] = ImputeQuery(s23, s24)]
               ELSE IF outcome = "fail_mid_write"
               THEN content' = [content EXCEPT ![target] = <<>>]
               ELSE UNCHANGED content
            /\ IF outcome = "ok"
               THEN /\ gen' = [gen EXCEPT ![taxi] = @ + 1]
                    /\ UNCHANGED <<log, failed>>
               ELSE /\ log' = log \cup {<<"impute_error", taxi>>}
                    /\ failed' = failed \cup {<<"impute", taxi>>}
                    /\ UNCHANGED gen
    /\ IF taxi_idx < Len(TAXI_TYPES)
       THEN taxi_idx' = taxi_idx + 1 /\ pc' = "impute"
       ELSE taxi_idx' = taxi_idx /\ pc' = "connect"
    /\ UNCHANGED <<weather_cache, outvars, env, peer, tabvars, run, orch, dl_idx, exit_status,
                   dbvars, loc, exc, trace>>

\* two pipeline processes started on a data directory without the imputed
\* files, both inside impute_december_data; the first one is running
TwoRunsInit ==
    /\ files = [k \in FileKeys |-> IF k[1] = 2025 /\ k[2] = 12 THEN "absent" ELSE "complete"]
    /\ gen = [t \in TaxiSet |-> 0]
    /\ content = [k \in FileKeys |-> <<>>]
    /\ weather_cache = FALSE
    /\ audit_csv = <<>>
    /\ summary = <<>>
    /\ out = [a \in Artifacts |-> 0]
    /\ report = <<>>
    /\ env = [pandas |-> TRUE, scipy |-> TRUE]
    /\ run = 1
    /\ orch = "pipeline"
    /\ pc = "impute"
    /\ dl_idx = Len(required_downloads)
    /\ taxi_idx = 1
    /\ exit_status = "running"
    /\ imp_conn = "open"
    /\ conn = "none"
    /\ view_exists = FALSE
    /\ view = <<>>
    /\ view_zones = {}
    /\ leakage_csv = <<>>
    /\ border_csv = <<>>
    /\ velocity_csv = [y \in {2024, 2025} |-> {}]
    /\ loc = InitLoc
    /\ exc = "none"
    /\ log = {}
    /\ failed = {}
    /\ trace = <<"download">>
    /\ faults = MaxFaults
    /\ peer = [Locals EXCEPT !.run = 2]

TwoRunsNext ==
    \/ Switch
    \/ ImputeCheck
    \/ ImputeWrite
    \/ Connect
    \/ CreateView
    \/ RunAuditQuery
    \/ RunCountQuery
    \/ RunVendorQuery
    \/ Revenue
    \/ Leakage
    \/ Q1_2024
    \/ Q1_2025
    \/ Export
    \/ Velocity_2024
    \/ Velocity_2025
    \/ BorderEffect
    \/ FetchWeather
    \/ DailyTrips
    \/ TipEconomics
    \/ Elasticity
    \/ Finally

SpecTwoRuns == TwoRunsInit /\ [][TwoRunsNext]_vars

\* main after conn = get_duckdb_conn(): the try block, with the 2025 files all
\* readable or the yellow January file missing, the weather cached or not
MainInit ==
    /\ files \in {[k \in FileKeys |-> "complete"],
                  [k \in FileKeys |-> IF k \in {<<2025, 1, "yellow">>, target_file("yellow")}
                                      THEN "absent" ELSE "complete"]}
    /\ gen = [t \in TaxiSet |-> 0]
    /\ content = [k \in FileKeys |-> <<>>]
    /\ weather_cache \in BOOLEAN
    /\ audit_csv = <<>>
    /\ summary = <<>>
    /\ out = [a \in Artifacts |-> 0]
    /\ report = <<>>
    /\ env \in [pandas : BOOLEAN, scipy : BOOLEAN]
    /\ run = 1
    /\ orch = "pipeline"
    /\ pc = "view"
    /\ dl_idx = Len(required_downloads)
    /\ taxi_idx = Len(TAXI_TYPES)
    /\ exit_status = "running"
    /\ imp_conn = "open"
    /\ conn = "open"
    /\ view_exists = FALSE
    /\ view = <<>>
    /\ view_zones = {}
    /\ leakage_csv = <<>>
    /\ border_csv = <<>>
    /\ velocity_csv = [y \in {2024, 2025} |-> {}]
    /\ peer = <<>>
    /\ loc = InitLoc
    /\ exc = "none"
    /\ log = {<<"already_exists", t>> : t \in TaxiSet}
    /\ failed = {}
    /\ trace = <<"download", "impute">>
    /\ faults = 0

MainNext ==
    \/ CreateView
    \/ RunAuditQuery
    \/ RunCountQuery
    \/ RunVendorQuery
    \/ Revenue
    \/ Leakage
    \/ Q1_2024
    \/ Q1_2025
    \/ Export
    \/ Velocity_2024
    \/ Velocity_2025
    \/ BorderEffect
    \/ FetchWeather
    \/ DailyTrips
    \/ TipEconomics
    \/ Elasticity
    \/ Except
    \/ Finally

\* the statements of main run one after the other; every query returns or raises
SpecMain == MainInit /\ [][MainNext]_vars /\ WF_vars(MainNext)

\* run_ghost_trip_audit over the leaderboard views
LeaderboardInit ==
    /\ files = [k \in FileKeys |-> "complete"]
    /\ gen = [t \in TaxiSet |-> 1]
    /\ content = [k \in FileKeys |-> <<>>]
    /\ weather_cache = FALSE
    /\ audit_csv = <<>>
    /\ summary = <<>>
    /\ out = [a \in Artifacts |-> 0]
    /\ report = <<>>
    /\ env = [pandas |-> TRUE, scipy |-> TRUE]
    /\ run = 1
    /\ orch = "pipeline"
    /\ pc = "audit_query"
    /\ dl_idx = Len(required_downloads)
    /\ taxi_idx = Len(TAXI_TYPES)
    /\ exit_status = "running"
    /\ imp_conn = "open"
    /\ conn = "open"
    /\ view_exists = TRUE
    /\ view \in LeaderboardViews
    /\ view_zones = ZonesOf(view)
    /\ leakage_csv = <<>>
    /\ border_csv = <<>>
    /\ velocity_csv = [y \in {2024, 2025} |-> {}]
    /\ peer = <<>>
    /\ loc = InitLoc
    /\ exc = "none"
    /\ log = {<<"sampling", t>> : t \in TaxiSet}
    /\ failed = {}
    /\ trace = <<"download", "impute", "view">>
    /\ faults = 0

AuditNext ==
    \/ RunAuditQuery
    \/ RunCountQuery
    \/ RunVendorQuery

SpecLeaderboard == LeaderboardInit /\ [][AuditNext]_vars

SpecAudit == AuditInit /\ [][AuditNext]_vars

\* ------------------------------------------------------------------------
\* Properties
\* ------------------------------------------------------------------------
\* the predicates of the three fraud rules as the specification words them,
\* on the numbers of a row: miles = tenths / 10, and max(duration, 0.1) is
\* the duration from 1 minute on and 0.1 minute below
RuleImpossiblePhysics(r) ==
    /\ r.trip_distance # NULL
    /\ IF r.duration_min >= 1
       THEN 6 * r.trip_distance[1] > 65 * r.duration_min
       ELSE 60 * r.trip_distance[1] > 65

RuleTeleporter(r) == r.duration_min < 1 /\ r.fare # NULL /\ r.fare[1] > 20

RuleStationaryRide(r) ==
    /\ r.trip_distance # NULL /\ r.trip_distance[1] = 0
    /\ r.fare # NULL /\ r.fare[1] > 0

FirstMatch(r) ==
    IF RuleImpossiblePhysics(r) THEN "Impossible Physics"
    ELSE IF RuleTeleporter(r) THEN "Teleporter"
    ELSE IF RuleStationaryRide(r) THEN "Stationary Ride"
    ELSE "OK"

\* a row of the view with the duration the rules speak of
WithDuration(row) ==
    [VendorID |-> row.VendorID, pickup_time |-> row.pickup_time,
     dropoff_time |-> row.dropoff_time, trip_distance |-> row.trip_distance,
     fare |-> row.fare,
     duration_min |-> (row.dropoff_time \div 60) - (row.pickup_time \div 60)]

\* the columns of the view in a row of the flagged table
ViewColumns(r) ==
    [VendorID |-> r.VendorID, pickup_time |-> r.pickup_time,
     dropoff_time |-> r.dropoff_time, trip_distance |-> r.trip_distance, fare |-> r.fare]

AuditWritten == out["ghost_trip_audit"] = run

\* C1: every row of the unified view is labelled by the first matching rule in
\* the order ImpossiblePhysics, Teleporter, StationaryRide, OK; so a row
\* matching ImpossiblePhysics and Teleporter is ImpossiblePhysics, and a row
\* matching Teleporter and StationaryRide is Teleporter.
C1_FirstMatchWins ==
    /\ \A i \in 1..Len(view) : fraud_flag(view[i]) = FirstMatch(WithDuration(view[i]))
    /\ \A i \in 1..Len(audit_csv) :
         LET r == audit_csv[i]
         IN /\ r.fraud_flag = FirstMatch(r)
            /\ RuleImpossiblePhysics(r) /\ RuleTeleporter(r)
                 => r.fraud_flag = "Impossible Physics"
            /\ RuleTeleporter(r) /\ RuleStationaryRide(r)
                 => r.fraud_flag = "Teleporter"

\* C1 witness: the flagged table holds a row that matches both the
\* ImpossiblePhysics and the Teleporter rule
C1_Witness ==
    /\ AuditWritten
    /\ \E i \in 1..Len(audit_csv) :
         RuleImpossiblePhysics(audit_csv[i]) /\ RuleTeleporter(audit_csv[i])

\* the rows of a sequence equal to r, counted
Occurrences(seq, r) == Cardinality({i \in 1..Len(seq) : seq[i] = r})

FlaggedColumns == [i \in 1..Len(audit_csv) |-> ViewColumns(audit_csv[i])]

\* C2: the flagged table written by run_ghost_trip_audit holds exactly the
\* rows of the view that match at least one rule: no persisted row is OK and
\* every row that is not OK is persisted, as often as it occurs in the view.
C2_FlaggedExactlyNonOK ==
    AuditWritten =>
        /\ \A i \in 1..Len(audit_csv) :
             /\ audit_csv[i].fraud_flag \in {"Impossible Physics", "Teleporter", "Stationary Ride"}
             /\ \E j \in 1..Len(view) : view[j] = ViewColumns(audit_csv[i])
        /\ \A j \in 1..Len(view) :
             Occurrences(FlaggedColumns, view[j]) =
                 IF FirstMatch(WithDuration(view[j])) = "OK" THEN 0
                 ELSE Occurrences(view, view[j])

\* C2 witness: the audit ran on a view with an OK row and flagged rows
C2_Witness ==
    /\ AuditWritten
    /\ audit_csv # <<>>
    /\ Len(audit_csv) < Len(view)
    /\ \E j \in 1..Len(view) : FirstMatch(WithDuration(view[j])) = "OK"

\* the stages begun in this run, and the failures of this run
Begun == {trace[i] : i \in 1..Len(trace)}
ViewFailed == <<"view", "">> \in failed

AggregationJobs ==
    {"revenue", "leakage", "q1_2024", "q1_2025", "velocity_2024", "velocity_2025",
     "border_effect", "tips_economics"}
WeatherStages == {"weather", "daily_trips_2025", "elasticity"}

\* C3 (as claimed): when the unified view cannot be built, no aggregation job,
\* no weather correlation and no summary export is started afterwards.
C3_ViewFailureStopsDownstream ==
    ViewFailed => Begun \cap (AggregationJobs \cup WeatherStages \cup {"export"}) = {}

\* C4 (as claimed): a view failure ends the pipeline with a failure status, and
\* the runner does not go on to the report, the blogs or the dashboard.
C4_ViewFailureIsHardStop ==
    ViewFailed =>
        /\ pc = "exited" => exit_status = "failure"
        /\ orch \notin {"report", "blogs", "dashboard", "done"}

\* C5 (as claimed): when an aggregation job fails while the view exists, the
\* failure is caught at the job and every other aggregation job is executed.
C5_JobsFailureIsolated ==
    (pc = "exited" /\ view_exists /\ \E j \in AggregationJobs : <<j, "">> \in failed) =>
        /\ AggregationJobs \subseteq Begun
        /\ \A j \in AggregationJobs : <<"critical", j>> \notin log

\* the place of a step in the order of the specification: Imputation, View,
\* Fraud Audit, Aggregation jobs, Weather, Export
SpecRank(stage) ==
    CASE stage \in {"download", "impute"} -> 1
      [] stage = "view" -> 2
      [] stage = "audit" -> 3
      [] stage \in AggregationJobs -> 4
      [] stage \in WeatherStages -> 5
      [] stage = "export" -> 6

\* C6 (as claimed): the stages of a run begin in the order Imputation, View,
\* Fraud Audit, Aggregation jobs, Weather, Export; the summary export comes
\* after all aggregation jobs and the weather module.
C6_SpecOrder ==
    \A i, j \in 1..Len(trace) : i < j => SpecRank(trace[i]) <= SpecRank(trace[j])

\* the order of the steps in main and the functions it calls
CodeOrder ==
    <<"download", "impute", "view", "audit", "revenue", "leakage", "q1_2024", "q1_2025",
      "export", "velocity_2024", "velocity_2025", "border_effect", "weather",
      "daily_trips_2025", "tips_economics", "elasticity">>

CodeRank(stage) == CHOOSE k \in 1..Len(CodeOrder) : CodeOrder[k] = stage

\* C6 (amended): the steps of a run begin strictly in the order download,
\* imputation, view, audit, revenue, leakage, Q1 volumes, summary export,
\* velocity, border effect, weather fetch, daily counts, tip economics,
\* elasticity; the export comes after view, audit, revenue, leakage and the Q1
\* counts and before velocity, border effect, tip economics and weather.
C6_CodeOrder ==
    /\ \A i, j \in 1..Len(trace) : i < j => CodeRank(trace[i]) < CodeRank(trace[j])
    /\ "export" \in Begun =>
         {"view", "audit", "revenue", "leakage", "q1_2024", "q1_2025"} \subseteq Begun
    /\ Begun \cap ({"velocity_2024", "velocity_2025", "border_effect", "tips_economics"}
                    \cup WeatherStages) # {} => "export" \in Begun

\* C6 witness: a run that exported the summary and then ran every later step
C6_Witness ==
    /\ pc = "exited"
    /\ Len(trace) = Len(CodeOrder)

\* C7 (as claimed): every run replaces the summary artifact, so after a run it
\* never holds the values computed by an earlier run.
C7_SummaryOfThisRun ==
    (pc = "exited" /\ exit_status = "success" /\ summary # <<>> /\ summary.complete) =>
        summary.run = run

\* C8: once the imputed target of a taxi class exists, no step samples for it,
\* writes it or regenerates it; the file is written at most once over all runs.
C8_TargetWrittenOnce ==
    [][\A t \in TaxiSet :
          files[target_file(t)] # "absent" =>
              /\ files'[target_file(t)] = files[target_file(t)]
              /\ gen'[t] = gen[t]
              /\ <<"sampling", t>> \notin (log' \ log)]_vars

\* C8 witness: a later run found the target written by an earlier run and
\* skipped the class
C8_Witness ==
    /\ run = 2
    /\ pc = "connect"
    /\ \E t \in TaxiSet :
         /\ <<"already_exists", t>> \in log
         /\ <<"sampling", t>> \notin log
         /\ gen[t] = 1
         /\ files[target_file(t)] = "complete"

\* C9 (as claimed): after a failed imputation write no target file of that
\* taxi class exists.
C9_FailedWriteLeavesNoTarget ==
    \A t \in TaxiSet : <<"impute", t>> \in failed => files[target_file(t)] = "absent"

\* C10: with the target absent and a source file missing, the iteration writes
\* nothing, prints the warning and goes on to the other taxi class, and after
\* the last class main goes on to open its connection.
C10_MissingSourceSkips ==
    [][\A i \in 1..Len(TAXI_TYPES) :
          (/\ pc = "impute" /\ taxi_idx = i
           /\ files[target_file(TAXI_TYPES[i])] = "absent"
           /\ \/ files[src_2023(TAXI_TYPES[i])] = "absent"
              \/ files[src_2024(TAXI_TYPES[i])] = "absent")
          => /\ files' = files /\ gen' = gen
             /\ <<"missing_source", TAXI_TYPES[i]>> \in log'
             /\ <<"sampling", TAXI_TYPES[i]>> \notin log'
             /\ IF i < Len(TAXI_TYPES)
                THEN pc' = "impute" /\ taxi_idx' = i + 1
                ELSE pc' = "connect" /\ exit_status' = "running"]_vars

\* C10 witness: the first class was skipped for a missing source, the other
\* class was imputed, and the run went on to build the view
C10_Witness ==
    /\ <<"missing_source", "yellow">> \in log
    /\ files[target_file("yellow")] = "absent"
    /\ <<"sampling", "green">> \in log
    /\ files[target_file("green")] = "complete"
    /\ "view" \in Begun

\* C13: a row with distance 0, fare in (0, 20] and a duration of at least one
\* minute is labelled Stationary Ride (and so is persisted).
C13_StationaryRide ==
    /\ \A j \in 1..Len(view) :
         LET r == WithDuration(view[j])
         IN (/\ r.trip_distance = <<0>> /\ r.fare # NULL /\ r.fare[1] > 0
             /\ r.fare[1] <= 20 /\ r.duration_min >= 1)
            => /\ fraud_flag(view[j]) = "Stationary Ride"
               /\ AuditWritten =>
                    \E i \in 1..Len(audit_csv) :
                        /\ ViewColumns(audit_csv[i]) = view[j]
                        /\ audit_csv[i].fraud_flag = "Stationary Ride"
    /\ \A i \in 1..Len(audit_csv) :
         LET r == audit_csv[i]
         IN (/\ r.trip_distance = <<0>> /\ r.fare # NULL /\ r.fare[1] > 0
             /\ r.fare[1] <= 20 /\ r.duration_min >= 1)
            => r.fraud_flag = "Stationary Ride"

\* C13 witness: the flagged table holds a 5-minute trip of distance 0 and a
\* fare of at most 20 dollars
C13_Witness ==
    /\ AuditWritten
    /\ \E i \in 1..Len(audit_csv) :
         /\ audit_csv[i].trip_distance = <<0>>
         /\ audit_csv[i].fare \in {<<10>>, <<20>>}
         /\ audit_csv[i].duration_min >= 1

\* the filter speed of a row is at most 65 mph
FilterSpeedAtMost65(r) ==
    /\ r.trip_distance # NULL
    /\ IF r.duration_min >= 1
       THEN 6 * r.trip_distance[1] <= 65 * r.duration_min
       ELSE 60 * r.trip_distance[1] <= 65

\* C14: a row with a duration below one minute, a fare above 20 and a filter
\* speed of at most 65 mph is labelled Teleporter, whatever its distance, also
\* when the distance is 0 and the row matches Stationary Ride as well.
C14_Teleporter ==
    /\ \A j \in 1..Len(view) :
         LET r == WithDuration(view[j])
         IN (r.duration_min < 1 /\ r.fare # NULL /\ r.fare[1] > 20 /\ FilterSpeedAtMost65(r))
            => fraud_flag(view[j]) = "Teleporter"
    /\ \A i \in 1..Len(audit_csv) :
         LET r == audit_csv[i]
         IN (r.duration_min < 1 /\ r.fare # NULL /\ r.fare[1] > 20 /\ FilterSpeedAtMost65(r))
            => r.fraud_flag = "Teleporter"

\* C14 witness: the flagged table holds a Teleporter row of distance 0, which
\* matches the Stationary Ride rule too
C14_Witness ==
    /\ AuditWritten
    /\ \E i \in 1..Len(audit_csv) :
         /\ audit_csv[i].duration_min < 1
         /\ audit_csv[i].trip_distance = <<0>>
         /\ audit_csv[i].fare = <<21>>
         /\ audit_csv[i].fraud_flag = "Teleporter"

\* C16: the reported speed of a flagged row is 0 for a duration of at most 0
\* and distance / (duration / 60) otherwise, the selection uses the 0.1-minute
\* floor: a row with duration <= 0 and distance * 600 > 65 is persisted as
\* Impossible Physics with speed 0; no divisor is 0.
C16_ReportedSpeed ==
    /\ \A i \in 1..Len(audit_csv) :
         LET r == audit_csv[i]
         IN /\ r.duration_min <= 0 => r.speed_mph # NULL /\ r.speed_mph[1] = 0
            /\ r.speed_mph # NULL => r.speed_mph[2] # 0
            /\ (r.duration_min > 0 /\ r.trip_distance # NULL) =>
                  /\ r.speed_mph # NULL
                  \* speed = (tenths / 10) / (duration / 60)
                  /\ r.speed_mph[1] * r.duration_min * 10
                        = r.trip_distance[1] * 60 * r.speed_mph[2]
    /\ \A j \in 1..Len(view) : GreatestTenths(duration_min(view[j])) > 0
    /\ AuditWritten =>
         \A j \in 1..Len(view) :
            LET r == WithDuration(view[j])
            IN (r.duration_min <= 0 /\ r.trip_distance # NULL
                    /\ r.trip_distance[1] * 60 > 65)
               => \E i \in 1..Len(audit_csv) :
                     /\ ViewColumns(audit_csv[i]) = view[j]
                     /\ audit_csv[i].fraud_flag = "Impossible Physics"
                     /\ audit_csv[i].speed_mph = <<0, 1>>

\* C16 witness: a flagged row of duration <= 0 whose filter speed exceeds 65,
\* and a flagged row of positive duration
C16_Witness ==
    /\ AuditWritten
    /\ \E i \in 1..Len(audit_csv) :
         /\ audit_csv[i].duration_min <= 0
         /\ audit_csv[i].trip_distance = <<2>>
         /\ audit_csv[i].fraud_flag = "Impossible Physics"

\* C12: with the regression capability available, the weather-correlation
\* report is produced whenever at least 10 joined rows remain, and is not
\* produced when fewer than 10 remain.
C12_ReportIffAtLeast10 ==
    (pc \in {"finally", "exited"} /\ loc.joined >= 0) =>
        ((out["elasticity"] = run) <=> (loc.joined >= 10))

\* the regression capability: PANDAS_AVAILABLE and SCIPY_AVAILABLE
RegressionAvailable == env.pandas /\ env.scipy

\* C20: without the regression capability (scipy or pandas missing) the
\* elasticity step changes nothing and fails nothing, and a run in which
\* nothing else failed ends normally with every other output of this run
\* (flagged table, leakage, summary, velocity, border effect, daily trips,
\* tip economics) written and no elasticity report.
C20_OnlyElasticitySkipped ==
    /\ []((pc = "exited" /\ ~RegressionAvailable /\ failed = {}) =>
            /\ \A a \in Artifacts \ {"elasticity"} : out[a] = run
            /\ summary # <<>> /\ summary.run = run /\ summary.complete
            /\ out["elasticity"] # run
            /\ exit_status = "success"
            /\ \A e \in log : e[1] \notin {"critical", "economics_error"})
    /\ [][(pc = "elasticity" /\ ~RegressionAvailable) =>
            /\ pc' = "finally"
            /\ UNCHANGED <<fsvars, outvars, log, failed, exc, exit_status>>]_vars

\* C20 witness: a run without scipy has ended with nothing failed, the
\* tip-economics table written and no elasticity report
C20_Witness ==
    /\ pc = "exited"
    /\ ~env.scipy
    /\ failed = {}
    /\ out["tips_economics"] = run
    /\ out["elasticity"] # run

\* the rows of the flagged table submitted by v
FlaggedOf(v) == {i \in 1..Len(audit_csv) : audit_csv[i].VendorID = v}

\* C15: the leaderboard returned by run_ghost_trip_audit has at most 5 entries
\* in descending order of count, each count is the number of flagged rows of
\* that submitter, no omitted submitter has a strictly larger count than an
\* included one, and the returned total is the number of flagged rows; a
\* submitter with 3 stationary trips has count 3, all Stationary Ride.
C15_Leaderboard ==
    (pc = "revenue" /\ AuditWritten) =>
        LET b == loc.vendors
            listed == {b[i][1] : i \in 1..Len(b)}
            omitted == {audit_csv[i].VendorID : i \in 1..Len(audit_csv)} \ listed
        IN /\ Len(b) <= 5
           /\ \A i, j \in 1..Len(b) : i < j => b[i][2] >= b[j][2] /\ b[i][1] # b[j][1]
           /\ \A i \in 1..Len(b) : b[i][2] = Cardinality(FlaggedOf(b[i][1])) /\ b[i][2] > 0
           /\ \A v \in omitted : \A i \in 1..Len(b) : Cardinality(FlaggedOf(v)) <= b[i][2]
           /\ omitted # {} => Len(b) = 5
           /\ loc.count = Len(audit_csv)
           /\ \A v \in LeaderboardVendors :
                Occurrences(view, [RowStationary EXCEPT !.VendorID = v]) = 3 =>
                    /\ Cardinality(FlaggedOf(v)) = 3
                    /\ \A i \in FlaggedOf(v) : audit_csv[i].fraud_flag = "Stationary Ride"
                    /\ v \in listed => \E i \in 1..Len(b) : b[i] = <<v, 3>>

\* C15 witness: six submitters have flagged trips, one is left out of the
\* leaderboard, and a submitter with 3 stationary trips is listed with count 3
C15_Witness ==
    /\ pc = "revenue"
    /\ AuditWritten
    /\ Len(loc.vendors) = 5
    /\ Cardinality({audit_csv[i].VendorID : i \in 1..Len(audit_csv)}) = 6
    /\ \E i \in 1..5 : loc.vendors[i][2] = 3
    /\ \E i \in 1..5 : loc.vendors[i][2] = 1

\* b is a n years after a in the calendar (a leap day maps to February 28)
YearsLater(a, b, n) ==
    /\ b[1] = a[1] + n
    /\ b[2] = a[2]
    /\ \/ b[3] = a[3]
       \/ a[2] = 2 /\ a[3] = 29 /\ b[3] = 28 /\ ~IsLeapYear(b[1])

\* row t is row r with both timestamps n years later and nothing else changed
ShiftedBy(r, t, n) ==
    /\ YearsLater(r.pickup, t.pickup, n)
    /\ YearsLater(r.dropoff, t.dropoff, n)
    /\ t.DOLocationID = r.DOLocationID

\* the imputation of the current taxi class writes its target in this step
ImputationSucceeds ==
    /\ pc = "impute"
    /\ files'[target_file(TAXI_TYPES[taxi_idx])] = "complete"
    /\ gen'[TAXI_TYPES[taxi_idx]] = gen[TAXI_TYPES[taxi_idx]] + 1

\* C11: a successful imputation of one taxi class writes exactly one new file,
\* the target, and leaves every other file, both sources included, as it was;
\* every row of the target is a row of the 2023 source with pickup and dropoff
\* 2 years later or a row of the 2024 source with them 1 year later, and the
\* target holds no more rows than the two sources together.
C11_ImputationFrame ==
    [][ImputationSucceeds =>
         LET taxi == TAXI_TYPES[taxi_idx]
             target == target_file(taxi)
             s23 == content[src_2023(taxi)]
             s24 == content[src_2024(taxi)]
             t == content'[target]
         IN /\ ~Exists(files[target])
            /\ \A k \in FileKeys \ {target} :
                  files'[k] = files[k] /\ content'[k] = content[k]
            /\ \A i \in 1..Len(t) :
                  \/ \E j \in 1..Len(s23) : ShiftedBy(s23[j], t[i], 2)
                  \/ \E j \in 1..Len(s24) : ShiftedBy(s24[j], t[i], 1)
            /\ \A r \in {t[i] : i \in 1..Len(t)} :
                  Occurrences(t, r) <=
                      Occurrences(ShiftYears(s23, 2), r) + Occurrences(ShiftYears(s24, 1), r)
       ]_vars

\* C11 witness: the yellow target was written once from both sources and
\* holds a row of the 2023 source and a leap-day row of the 2024 source
C11_Witness ==
    /\ gen["yellow"] = 1
    /\ files[target_file("yellow")] = "complete"
    /\ \E i \in 1..Len(content[target_file("yellow")]) :
         content[target_file("yellow")][i].pickup = <<2025, 2, 28>>
    /\ \E i \in 1..Len(content[target_file("yellow")]) :
         \E j \in 1..Len(content[src_2023("yellow")]) :
            ShiftedBy(content[src_2023("yellow")][j], content[target_file("yellow")][i], 2)

\* the drop-offs of both taxi classes stored for a year, in the congestion
\* zone, with year-01-01 <= t < year-04-01
Q1DropOffs(year) ==
    {x \in GlobRows(year, "yellow") \cup GlobRows(year, "green") :
        LET r == content[x[1]][x[2]]
        IN /\ r.DOLocationID \in CONGESTION_ZONE_IDS
           /\ DateLE(<<year, 1, 1>>, r.dropoff)
           /\ \/ r.dropoff[1] < year
              \/ r.dropoff[1] = year /\ r.dropoff[2] < 4}

\* the percent change p = <<numerator, denominator>> equals
\* (later - earlier) / earlier * 100
IsPercentChange(p, earlier, later) ==
    /\ p[2] # 0
    /\ IF earlier > 0
       THEN p[1] * earlier = (later - earlier) * 100 * p[2]
       ELSE p[1] = 0

Q1DropOffsAt(year, z) ==
    {x \in GlobRows(year, "yellow") :
        LET r == content[x[1]][x[2]]
        IN /\ r.DOLocationID = z
           /\ r.dropoff[1] = year
           /\ r.dropoff[2] \in {1, 2, 3}}

BorderRowsAt(z) == {i \in 1..Len(border_csv) : border_csv[i].location_id = z}

\* the zones of the stored drop-offs
StoredZones ==
    {content[x[1]][x[2]].DOLocationID : x \in GlobRows(2024, "yellow") \cup GlobRows(2025, "yellow")}

\* C19: in the border-effect table every zone with Q1 drop-offs in 2024 or in
\* 2025 appears exactly once; a zone with Q1 drop-offs in 2025 only has
\* count_2024 = 0 and pct_change = 0, a zone with Q1 drop-offs in 2024 only has
\* count_2025 = 0, and no percent change has a zero divisor.
C19_BorderEffect ==
    (out["border_effect"] = run /\ pc = "weather") =>
        /\ \A i \in 1..Len(border_csv) : border_csv[i].pct_change[2] # 0
        /\ \A z \in StoredZones :
             LET earlier == Q1DropOffsAt(2024, z)
                 later == Q1DropOffsAt(2025, z)
             IN /\ (earlier # {} \/ later # {}) => Cardinality(BorderRowsAt(z)) = 1
                /\ (earlier = {} /\ later # {}) =>
                      \A i \in BorderRowsAt(z) :
                         border_csv[i].count_2024 = 0 /\ border_csv[i].pct_change[1] = 0
                /\ (earlier # {} /\ later = {}) =>
                      \A i \in BorderRowsAt(z) : border_csv[i].count_2025 = 0

\* the view rows of origin zone z that qualify for the leakage table
Qualifying(z) ==
    {t \in view_zones :
        /\ t.pickup_loc = z
        /\ t.pickup_loc \notin CONGESTION_ZONE_IDS
        /\ t.dropoff_loc \in CONGESTION_ZONE_IDS
        /\ DateLE(START_DATE, t.pickup_date)}

\* 0 <= r <= 1 for a rate <<numerator, denominator>>
IsFraction(r) == r[2] > 0 /\ 0 <= r[1] /\ r[1] <= r[2]

\* C17: every row of the leakage table has compliance_rate + leakage_rate = 1,
\* compliance_rate being the share of the origin zone's qualifying trips with
\* a surcharge above 0; both rates lie in [0, 1].
C17_RatesSumToOne ==
    (out["leakage_analysis"] = run /\ pc = "q1_2024") =>
        \A i \in 1..Len(leakage_csv) :
            LET r == leakage_csv[i]
                c == r.compliance_rate
                l == r.leakage_rate
            IN /\ IsFraction(c) /\ IsFraction(l)
               /\ c[1] * l[2] + l[1] * c[2] = c[2] * l[2]
               /\ c[1] * SumTrips(Qualifying(r.pickup_loc)) =
                     c[2] * SumTrips({t \in Qualifying(r.pickup_loc) :
                                         t.congestion_surcharge > 0})

\* C17 witness: the leakage table has a row for a zone with paid, unpaid and
\* refunded trips, and a row for a zone in which every trip paid
C17_Witness ==
    /\ out["leakage_analysis"] = run
    /\ pc = "q1_2024"
    /\ \E i \in 1..Len(leakage_csv) : leakage_csv[i].compliance_rate = <<60, 102>>
    /\ \E i \in 1..Len(leakage_csv) : leakage_csv[i].leakage_rate = <<0, 101>>

\* C28: no row matches both the Impossible Physics and the Stationary Ride
\* predicate; a row with distance 0 is never labelled Impossible Physics, and
\* a row with distance 0 and fare > 0 is labelled Teleporter when its duration
\* is below 1 minute and its fare above 20, Stationary Ride otherwise, and is
\* persisted.
C28_PhysicsStationaryExclusive ==
    \A j \in 1..Len(view) :
        LET r == WithDuration(view[j])
        IN /\ ~(ImpossiblePhysicsCond(view[j]) = "true" /\ StationaryCond(view[j]) = "true")
           /\ r.trip_distance = <<0>> => fraud_flag(view[j]) # "Impossible Physics"
           /\ (r.trip_distance = <<0>> /\ r.fare # NULL /\ r.fare[1] > 0) =>
                /\ fraud_flag(view[j]) =
                      IF r.duration_min < 1 /\ r.fare[1] > 20 THEN "Teleporter"
                      ELSE "Stationary Ride"
                /\ AuditWritten =>
                      \E i \in 1..Len(audit_csv) :
                          /\ ViewColumns(audit_csv[i]) = view[j]
                          /\ audit_csv[i].fraud_flag = fraud_flag(view[j])

\* C28 witness: a trip of distance 0, fare 10 and a duration of -1 minute is
\* in the flagged table as Stationary Ride
C28_Witness ==
    /\ AuditWritten
    /\ \E i \in 1..Len(audit_csv) :
         /\ audit_csv[i].trip_distance = <<0>>
         /\ audit_csv[i].fare = <<10>>
         /\ audit_csv[i].duration_min < 0
         /\ audit_csv[i].fraud_flag = "Stationary Ride"

\* the leakage rate of origin zone z over its qualifying trips
QualifyingLeakage(z) ==
    <<SumTrips({t \in Qualifying(z) : ~(t.congestion_surcharge > 0)}),
      SumTrips(Qualifying(z))>>

\* C25: the leakage table has at most 20 rows in descending order of
\* leakage_rate; every row is one origin zone outside the congestion zone
\* with more than 100 qualifying trips, and no omitted zone with more than 100
\* qualifying trips has a strictly higher leakage_rate than an included one.
C25_LeakageTopTwenty ==
    (out["leakage_analysis"] = run /\ pc = "q1_2024") =>
        LET listed == {leakage_csv[i].pickup_loc : i \in 1..Len(leakage_csv)}
            omitted == {z \in {t.pickup_loc : t \in view_zones} \ listed :
                           SumTrips(Qualifying(z)) > 100}
        IN /\ Len(leakage_csv) <= 20
           /\ \A i, j \in 1..Len(leakage_csv) :
                i < j => /\ RateGE(leakage_csv[i].leakage_rate, leakage_csv[j].leakage_rate)
                         /\ leakage_csv[i].pickup_loc # leakage_csv[j].pickup_loc
           /\ \A i \in 1..Len(leakage_csv) :
                /\ leakage_csv[i].pickup_loc \notin CONGESTION_ZONE_IDS
                /\ SumTrips(Qualifying(leakage_csv[i].pickup_loc)) > 100
                /\ leakage_csv[i].total_trips = SumTrips(Qualifying(leakage_csv[i].pickup_loc))
           /\ \A z \in omitted : \A i \in 1..Len(leakage_csv) :
                RateGE(leakage_csv[i].leakage_rate, QualifyingLeakage(z))
           /\ omitted # {} => Len(leakage_csv) = 20

\* C25 witness: 22 origin zones qualify, the table lists 20 of them, and zone
\* 27 with exactly 100 trips is not listed
C25_Witness ==
    /\ out["leakage_analysis"] = run
    /\ pc = "q1_2024"
    /\ Len(leakage_csv) = 20
    /\ Cardinality({z \in {t.pickup_loc : t \in view_zones} :
                       SumTrips(Qualifying(z)) > 100}) = 22
    /\ \E t \in view_zones : t.pickup_loc = 27
    /\ \A i \in 1..20 : leakage_csv[i].pickup_loc # 27

\* the files ensure_data_available downloads
DownloadKeys == {required_downloads[i] : i \in 1..Len(required_downloads)}

\* C22: after download_file returns its destination holds no partial file, and
\* holds no file at all when the transfer failed; the failure is not
\* propagated: the loop goes on to the next download, and to the imputation
\* after the last one.
C22_NoPartialDownload ==
    /\ [](\A k \in DownloadKeys \ {target_file(t) : t \in TaxiSet} : files[k] # "partial")
    /\ [][pc = "download" =>
            LET key == required_downloads[dl_idx]
            IN /\ files'[key] # "partial"
               /\ <<"download", ToString(key)>> \in failed' \ failed => files'[key] = "absent"
               /\ exc' = "none" /\ exit_status' = exit_status
               /\ IF dl_idx < Len(required_downloads)
                  THEN pc' = "download" /\ dl_idx' = dl_idx + 1
                  ELSE pc' = "impute_conn"]_vars

\* C22 witness: a download failed, its destination is absent, and the
\* imputation loop is running
C22_Witness ==
    /\ pc = "impute"
    /\ \E k \in DownloadKeys :
         /\ <<"download", ToString(k)>> \in failed
         /\ files[k] = "absent"

\* C23: the stages of a run share a single query-engine connection: two
\* connections are never open at once, and no connection opened in the run is
\* still open when the run has ended.
C23_SingleConnection ==
    /\ ~(imp_conn = "open" /\ conn = "open")
    /\ pc = "exited" => imp_conn # "open" /\ conn # "open"

\* C29: once main has opened its connection the run terminates whatever
\* stage fails: the exception is caught at most once, the connection is
\* closed exactly once, in the finally clause, and the run ends with
\* 'Pipeline Completed' and a normal exit status.
C29_AlwaysCompletes ==
    /\ (conn = "open") ~> (pc = "exited")
    /\ [](pc = "exited" =>
            /\ conn = "closed"
            /\ exit_status = "success"
            /\ <<"completed", "">> \in log
            /\ exc = "none"
            /\ Cardinality({e \in log : e[1] = "critical"}) <= 1)
    /\ [][/\ conn' # conn => (pc = "finally" /\ conn = "open" /\ conn' = "closed")
          /\ exc' # exc => (exc = "none" \/ (pc = "except" /\ exc' = "none"))]_vars

\* C29 witness: a stage raised, the error was printed once, and the run has
\* ended normally with the connection closed
C29_Witness ==
    /\ pc = "exited"
    /\ conn = "closed"
    /\ exit_status = "success"
    /\ \E e \in log : e[1] = "critical"
    /\ failed # {}

\* the failures that the code catches and swallows, with the console
\* diagnostic each one is expected to leave
SwallowedStages ==
    {"download", "impute", "view", "revenue", "q1_2024", "q1_2025",
     "velocity_2024", "velocity_2025", "border_effect", "weather", "elasticity"}

ExpectedDiagnostic(f) ==
    CASE f[1] = "download" -> <<"download_failed", f[2]>>
      [] f[1] = "impute" -> <<"impute_error", f[2]>>
      [] f[1] = "view" -> <<"view_error", "">>
      [] f[1] = "revenue" -> <<"revenue_failed", "">>
      [] f[1] \in {"q1_2024", "q1_2025"} -> <<"q1_failed", f[1]>>
      [] f[1] \in {"velocity_2024", "velocity_2025"} -> <<"velocity_failed", f[1]>>
      [] f[1] = "border_effect" -> <<"border_failed", "">>
      [] f[1] = "weather" -> <<"weather_failed", "">>
      [] f[1] = "elasticity" -> <<"economics_error", "">>

\* no stage of a run is begun a second time
NoStageRetried ==
    \A i, j \in 1..Len(trace) : i < j => trace[i] # trace[j]

\* C24: no operation is retried within a run, and every failure that is
\* caught and swallowed (download, imputation, view construction, revenue,
\* Q1 count, velocity, border effect, weather fetch, elasticity) has left a
\* console diagnostic.
C24_NoRetryAndDiagnosed ==
    /\ NoStageRetried
    /\ \A f \in failed : f[1] \in SwallowedStages => ExpectedDiagnostic(f) \in log

\* every swallowed failure other than the revenue and Q1 count ones has its
\* diagnostic
C24_OthersDiagnosed ==
    /\ NoStageRetried
    /\ \A f \in failed :
         f[1] \in SwallowedStages \ {"revenue", "q1_2024", "q1_2025"}
            => ExpectedDiagnostic(f) \in log

\* C30: an elasticity report in the output directory changes only when the
\* elasticity step of the running pipeline writes its own; a run that skips
\* the correlation neither removes nor overwrites the report an earlier run
\* left, and the report generator prints whatever report is there.
C30_StaleElasticityKept ==
    [][/\ out'["elasticity"] # out["elasticity"]
            => (pc = "elasticity" /\ out'["elasticity"] = run)
       /\ report' # report => report'.elasticity_run = out["elasticity"]]_vars

\* C30 witness: the pipeline of the current run ended normally without
\* writing an elasticity report, and the report generator of that run has
\* printed the one an earlier run had left
C30_Witness ==
    /\ orch = "blogs"
    /\ exit_status = "success"
    /\ report # <<>>
    /\ report.run = run
    /\ out["elasticity"] \notin {0, run}
    /\ report.elasticity_run = out["elasticity"]

\* the trips of the view the revenue is claimed to be summed over: picked up
\* on or after the start date, in the audit year 2025, with the pickup or the
\* drop-off zone in the congestion zone
QualifyingRevenue(vz) ==
    {t \in vz : /\ DateLE(START_DATE, t.pickup_date)
                /\ t.pickup_date[1] = 2025
                /\ (t.pickup_loc \in CONGESTION_ZONE_IDS \/ t.dropoff_loc \in CONGESTION_ZONE_IDS)}

RevenueComputed == pc = "leakage" /\ <<"revenue", "">> \notin failed

\* C21: the reported revenue is the sum of the surcharge over exactly the
\* trips of the view picked up on or after 2025-01-05, within the audit year
\* 2025, with the pickup or the drop-off zone in the congestion zone; a trip
\* dated after 2025 contributes nothing, and the result is 0 when no trip
\* qualifies.
C21_RevenueWithinAuditYear ==
    RevenueComputed => loc.revenue = SumSurcharge(QualifyingRevenue(view_zones))

\* the revenue is the sum over the trips from the start date on with an end
\* in the zone, whatever their year
C21_RevenueFromStartDate ==
    RevenueComputed =>
        loc.revenue = SumSurcharge({t \in view_zones :
            /\ DateLE(START_DATE, t.pickup_date)
            /\ (t.pickup_loc \in CONGESTION_ZONE_IDS \/ t.dropoff_loc \in CONGESTION_ZONE_IDS)})

\* the rows of year Y's yellow files the velocity table is claimed to
\* aggregate: picked up in Q1 of year Y, dropped off inside the zone, longer
\* than 1 minute and 0.1 mile, slower than 100 mph
QualifyingVelocity(year) ==
    {x \in GlobRows(year, "yellow") :
        LET r == content[x[1]][x[2]]
        IN /\ r.pickup[1] = year
           /\ r.pickup[2] \in {1, 2, 3}
           /\ r.DOLocationID \in CONGESTION_ZONE_IDS
           /\ velocity_duration(r) > 1
           /\ r.trip_distance > 1
           /\ 6 * r.trip_distance < 100 * velocity_duration(r)}

VelocityWritten(year) ==
    /\ year = 2024 => pc \in {"velocity_2025", "border_effect"}
    /\ year = 2025 => pc = "border_effect"
    /\ <<IF year = 2024 THEN "velocity_2024" ELSE "velocity_2025", "">> \notin failed

\* every bucket's avg_speed is strictly between 0 and 100
SpeedInRange(table) ==
    \A b \in table : /\ b.avg_speed[2] > 0
                     /\ b.avg_speed[1] > 0
                     /\ b.avg_speed[1] < 100 * b.avg_speed[2]

\* C26: the velocity table of year Y aggregates only the standard-class
\* trips that fall in Q1 of year Y, drop off inside the congestion zone, last
\* more than 1 minute, cover more than 0.1 mile and are slower than 100 mph:
\* every bucket's avg_speed is strictly between 0 and 100, and a trip stored
\* in year Y's files but dated in January-March of another year is not counted.
C26_VelocityOfQ1 ==
    \A year \in {2024, 2025} :
        VelocityWritten(year) =>
            /\ velocity_csv[year] = VelocityTable(QualifyingVelocity(year))
            /\ SpeedInRange(velocity_csv[year])

\* the avg_speed of every bucket of a written table is strictly between 0
\* and 100
C26_SpeedRange ==
    \A year \in {2024, 2025} : VelocityWritten(year) => SpeedInRange(velocity_csv[year])

\* C27: two pipeline processes on the same directories are not guarded
\* against each other: a process at the existence check proceeds to the COPY
\* whenever the target is absent and the sources exist, whatever the other
\* process is doing; a COPY that succeeds writes the target once more; and an
\* output artifact is overwritten by whichever process reaches its stage.
C27_RunsNotGuarded ==
    [][run' = run =>
          /\ (pc = "impute" /\ ImputeDecision(files, TAXI_TYPES[taxi_idx]) = "copy")
                => pc' = "impute_copy"
          /\ (pc = "impute_copy" /\ failed' = failed)
                => /\ gen'[TAXI_TYPES[taxi_idx]] = gen[TAXI_TYPES[taxi_idx]] + 1
                   /\ files'[target_file(TAXI_TYPES[taxi_idx])] = "complete"
          /\ \A a \in Artifacts : out'[a] # out[a] => out'[a] = run]_vars

\* C27 witness: both processes have ended; both passed the existence check
\* while the imputed yellow file was absent and both wrote it; and the
\* output directory holds artifacts of the first process next to artifacts
\* of the second
C27_Witness ==
    /\ peer # <<>>
    /\ pc = "exited"
    /\ peer.pc = "exited"
    /\ <<"sampling", "yellow">> \in log \cap peer.log
    /\ gen["yellow"] = 2
    /\ \E a, b \in Artifacts : out[a] = 1 /\ out[b] = 2

====
